---- MODULE Spec2Model ----
(***************************************************************************)
(* Layro: layered configuration resolution.                                *)
(*                                                                         *)
(* The module models ConfigManager.parse_args (src/layro/manager.py), the  *)
(* loaders (src/layro/loaders.py) and the converters                       *)
(* (src/layro/converters.py).  Python values are tagged records, a dict is *)
(* a function from keys to tagged values, a dataclass instance is a        *)
(* function from field names to tagged values.                             *)
(***************************************************************************)
EXTENDS Integers, Sequences, FiniteSets, TLC

VARIABLES
    fs,                          \* file system: path -> file content
    mode_field,                  \* ConfigManager.mode_field (None or a field name)
    pc,                          \* position of the current parse_args call
    argv,                        \* raw_argv of the current call
    user_config_path,            \* local of parse_args
    cli_mode_value,              \* local of parse_args
    remaining_argv_for_tyro,     \* local of parse_args
    default_yaml_content,        \* local of parse_args
    user_yaml_content,           \* local of parse_args
    authoritative_mode,          \* local of parse_args
    mode_default_yaml_content,   \* local of parse_args
    final_default_dict_for_tyro, \* local of parse_args
    default_instance_for_tyro,   \* local of parse_args
    final_config_obj,            \* local of parse_args, the returned object
    raised,                      \* the exception that left parse_args, or None
    tyro_invoked,                \* TRUE once tyro.cli was called in this call
    probed,                      \* paths whose existence this call has tested
    prev,                        \* argv and outcome of the call before this one
    override, base, merged,      \* arguments and result of a deep_merge call
    conv_value, conv_type, converted,  \* a convert_value_to_type call
    mat_tree, mat_class, materialized, \* a dict_to_dataclass call
    scan_argv, scan_mode, scanned,     \* a parse_known_args call
    heap,                        \* the dicts of a chain of merges, by address
    h_layers,                    \* the trees of the chain, as they were loaded
    h_roots,                     \* the address of the dict of each tree
    h_acc,                       \* the address of the dict merged so far
    h_done,                      \* how many trees the chain has merged
    between,                     \* the middle one of three trees to merge
    regrouped                    \* the three merged with the upper two first

vars == <<fs, mode_field, pc, argv, user_config_path, cli_mode_value,
          remaining_argv_for_tyro, default_yaml_content, user_yaml_content,
          authoritative_mode, mode_default_yaml_content,
          final_default_dict_for_tyro, default_instance_for_tyro,
          final_config_obj, raised, tyro_invoked, probed, prev, override,
          base, merged, conv_value, conv_type, converted, mat_tree, mat_class,
          materialized, scan_argv, scan_mode, scanned, heap, h_layers,
          h_roots, h_acc, h_done, between, regrouped>>

callVars == <<fs, mode_field, pc, argv, user_config_path, cli_mode_value,
              remaining_argv_for_tyro, default_yaml_content, user_yaml_content,
              authoritative_mode, mode_default_yaml_content,
              final_default_dict_for_tyro, default_instance_for_tyro,
              final_config_obj, raised, tyro_invoked, probed, prev>>

mergeVars == <<override, base, merged>>
convertVars == <<conv_value, conv_type, converted>>
materializeVars == <<mat_tree, mat_class, materialized>>
scanVars == <<scan_argv, scan_mode, scanned>>
heapVars == <<heap, h_layers, h_roots, h_acc, h_done>>
foldVars == <<between, regrouped>>
pureVars == <<mergeVars, convertVars, materializeVars, scanVars, heapVars,
              foldVars>>

(***************************************************************************)
(* Bounds of the model.                                                    *)
(***************************************************************************)
\* longest argv, counted in arguments (a flag with its value)
MaxArgs == 2
\* largest scalar of the trees handed to deep_merge on its own, and
\* largest number among the pieces of the list texts
MaxScalar == 2
\* largest number whose decimal text the conversions know
MaxNum == 60

(***************************************************************************)
(* Python values.                                                          *)
(***************************************************************************)
NullV == [t |-> "null"]
IntV(i) == [t |-> "int", i |-> i]
BoolV(b) == [t |-> "bool", b |-> b]
\* a float, held as its number of tenths; the infinite float and the
\* float that is not a number
FloatV(m) == [t |-> "float", m |-> m]
InfV == [t |-> "inf"]
NanV == [t |-> "nan"]
StrV(s) == [t |-> "str", s |-> s]
PathV(p) == [t |-> "path", p |-> p]
SeqV(q) == [t |-> "list", q |-> q]
TupleV(q) == [t |-> "tuple", q |-> q]
DictV(kv) == [t |-> "dict", kv |-> kv]
ObjV(cls, f) == [t |-> "obj", cls |-> cls, f |-> f]
ErrV(kind, about) == [t |-> "error", kind |-> kind, about |-> about]

EmptyDict == DictV([k \in {} |-> NullV])

\* the result of a call that has not returned yet
Pending == [t |-> "pending"]

IsErr(v) == v.t = "error"
IsDict(v) == v.t = "dict"

\* Python truth value of a value
Truthy(v) ==
    CASE v.t = "null" -> FALSE
      [] v.t = "bool" -> v.b
      [] v.t = "int"  -> v.i # 0
      [] v.t = "float" -> v.m # 0
      [] v.t = "str"  -> v.s # ""
      [] v.t = "list" -> Len(v.q) > 0
      [] v.t = "tuple" -> Len(v.q) > 0
      [] v.t = "dict" -> DOMAIN v.kv # {}
      [] OTHER        -> TRUE

\* decimal text of an integer, as str(i) and f"{i}" give it
RECURSIVE TextOfInt(_)
Digit(d) ==
    CASE d = 0 -> "0" [] d = 1 -> "1" [] d = 2 -> "2" [] d = 3 -> "3"
      [] d = 4 -> "4" [] d = 5 -> "5" [] d = 6 -> "6" [] d = 7 -> "7"
      [] d = 8 -> "8" [] d = 9 -> "9"
TextOfInt(i) ==
    IF i < 0 THEN "-" \o TextOfInt(-i)
    ELSE IF i < 10 THEN Digit(i)
    ELSE TextOfInt(i \div 10) \o Digit(i % 10)

\* str(x) of a float of so many tenths: "2.7", "-2.7", "2.0"
TextOfFloat(m) ==
    IF m < 0 THEN "-" \o TextOfInt((-m) \div 10) \o "." \o Digit((-m) % 10)
    ELSE TextOfInt(m \div 10) \o "." \o Digit(m % 10)

\* the numbers whose text s is: "12" and "12.0" both denote 12
NumbersOfText(s) ==
    {i \in 0..MaxNum : s = TextOfInt(i) \/ s = TextOfInt(i) \o ".0"}
IntegersOfText(s) == {i \in 0..MaxNum : s = TextOfInt(i)}

(***************************************************************************)
(* converters.deep_merge                                                   *)
(***************************************************************************)
\* dict(base): the copy of a mapping, the empty mapping of an empty
\* sequence or text, an exception of anything else (the sequences of the
\* model hold no pairs)
DictCopy(b) ==
    CASE b.t = "dict" -> b
      [] b.t \in {"list", "str"} /\ ~Truthy(b) -> EmptyDict
      [] b.t = "str" -> ErrV("ValueError", b)
      [] OTHER -> ErrV("TypeError", b)

\* deep_merge without the recursion: the override's value always replaces
deep_merge_shallow(o, b) ==
    DictV([k \in DOMAIN b.kv \cup DOMAIN o.kv |->
        IF k \in DOMAIN o.kv THEN o.kv[k] ELSE b.kv[k]])

\* deep_merge merging two sequences by position: the override's elements,
\* then what the base has beyond them
RECURSIVE deep_merge_elementwise(_, _)
deep_merge_elementwise(o, b) ==
    LET result == DictCopy(b)
    IN  IF IsErr(result) THEN result
        ELSE IF ~IsDict(o) THEN ErrV("AttributeError", o)
        ELSE DictV([k \in DOMAIN result.kv \cup DOMAIN o.kv |->
            IF k \in DOMAIN o.kv
            THEN IF k \in DOMAIN result.kv
                 THEN IF IsDict(o.kv[k]) /\ IsDict(result.kv[k])
                      THEN deep_merge_elementwise(o.kv[k], result.kv[k])
                      ELSE IF o.kv[k].t = "list" /\ result.kv[k].t = "list"
                           THEN SeqV(o.kv[k].q \o
                                     SubSeq(result.kv[k].q, Len(o.kv[k].q) + 1,
                                            Len(result.kv[k].q)))
                           ELSE o.kv[k]
                 ELSE o.kv[k]
            ELSE result.kv[k]])

RECURSIVE deep_merge(_, _)
deep_merge(o, b) ==
    LET result == DictCopy(b)
    IN  IF IsErr(result) THEN result
        \* override.items()
        ELSE IF ~IsDict(o) THEN ErrV("AttributeError", o)
        ELSE DictV([k \in DOMAIN result.kv \cup DOMAIN o.kv |->
            IF k \in DOMAIN o.kv
            THEN IF IsDict(o.kv[k]) /\ k \in DOMAIN result.kv
                    /\ IsDict(result.kv[k])
                 THEN deep_merge(o.kv[k], result.kv[k])
                 ELSE o.kv[k]
            ELSE result.kv[k]])

(***************************************************************************)
(* The schema handed to the manager as config_class: the TestConfig of    *)
(* the test suite, reduced to its scalar, path and nested fields; and the  *)
(* ListConfig of the test suite, a schema on its own.                      *)
(***************************************************************************)
TInt == [k |-> "int"]
TBool == [k |-> "bool"]
TStr == [k |-> "str"]
TPath == [k |-> "path"]
TOptional(ty) == [k |-> "optional", of |-> ty]
\* Union[T1, ..., Tn], and the NoneType that stands among the arguments
\* of an Optional
TUnion(args) == [k |-> "union", args |-> args]
TNone == [k |-> "none"]
TList(ty) == [k |-> "list", of |-> ty]
TDataclass(cls) == [k |-> "dataclass", cls |-> cls]

ConfigClass == "TestConfig"

\* get_type_hints(dataclass_type)
TypeHints(cls) ==
    IF cls = "TestConfig"
    THEN [config |-> TOptional(TPath), simple_value |-> TInt,
          model_type |-> TStr, nested |-> TDataclass("NestedConfig")]
    ELSE IF cls = "ListConfig"
    THEN [items |-> TList(TDataclass("NestedConfig"))]
    ELSE [value |-> TInt, name |-> TStr]

\* dataclass_type.__dataclass_fields__, in declaration order
FieldOrder(cls) ==
    IF cls = "TestConfig"
    THEN <<"config", "simple_value", "model_type", "nested">>
    ELSE IF cls = "ListConfig" THEN <<"items">>
    ELSE <<"value", "name">>

\* dataclass_type(): every field at its default or default_factory, after
\* __post_init__
NewInstance(cls) ==
    IF cls = "TestConfig"
    THEN ObjV("TestConfig",
              [config |-> NullV, simple_value |-> IntV(1),
               model_type |-> StrV("basic"),
               nested |-> ObjV("NestedConfig",
                               [value |-> IntV(42), name |-> StrV("nested")])])
    ELSE IF cls = "ListConfig"
    THEN ObjV("ListConfig",
              [items |-> SeqV(<<ObjV("NestedConfig",
                                     [value |-> IntV(42),
                                      name |-> StrV("nested")])>>)])
    ELSE ObjV("NestedConfig", [value |-> IntV(42), name |-> StrV("nested")])

\* ListConfig.__post_init__: items of None becomes the default list
PostInit(obj) ==
    IF obj.cls = "ListConfig" /\ obj.f["items"] = NullV
    THEN NewInstance("ListConfig") ELSE obj

\* the constructor leaving a field it is not given at None
Construct_noDefaults(cls, field_values) ==
    ObjV(cls, [f \in DOMAIN NewInstance(cls).f |->
        IF f \in DOMAIN field_values THEN field_values[f] ELSE NullV])

\* dataclass_type(**field_values): a field it is not given takes its default
Construct(cls, field_values) ==
    PostInit(ObjV(cls, [f \in DOMAIN NewInstance(cls).f |->
        IF f \in DOMAIN field_values THEN field_values[f]
        ELSE NewInstance(cls).f[f]]))

(***************************************************************************)
(* converters.convert_value_to_type, dataclass_to_dict, dict_to_dataclass  *)
(***************************************************************************)
\* str(value); the text of a dict or a list is not told apart further
TextOf(v) ==
    CASE v.t = "str"  -> v.s
      [] v.t = "int"  -> TextOfInt(v.i)
      [] v.t = "float" -> TextOfFloat(v.m)
      [] v.t = "inf"  -> "inf"
      [] v.t = "nan"  -> "nan"
      [] v.t = "bool" -> IF v.b THEN "True" ELSE "False"
      [] v.t = "path" -> v.p
      [] v.t = "null" -> "None"
      [] OTHER        -> "<repr>"

\* str.lower() on the texts of the model that hold capital letters
Lower(s) ==
    CASE s \in {"TRUE", "True", "tRuE"} -> "true"
      [] s \in {"YES", "Yes"} -> "yes"
      [] s = "Y" -> "y"
      [] s \in {"FALSE", "False"} -> "false"
      [] s \in {"NO", "No"} -> "no"
      [] s = "ON" -> "on"
      [] OTHER -> s

\* the truth test of a text comparing it as it is written
BoolOfText_caseSensitive(s) == s \in {"true", "yes", "1", "y"}

\* value.lower() in ('true', 'yes', '1', 'y')
BoolOfText(s) == Lower(s) \in {"true", "yes", "1", "y"}

(* The texts that list conversion takes apart are written from pieces: a  *)
(* number, the quoted text 'a', the bare word a.  A text is taken apart by *)
(* finding the pieces it was written from.                                 *)
Pieces == {TextOfInt(i) : i \in 1..MaxScalar} \cup {"'a'", "a"}
PieceSeqs ==
    {<<>>} \cup {<<w>> : w \in Pieces}
        \cup {<<w[1], w[2]>> : w \in Pieces \X Pieces}

RECURSIVE Joined(_, _)
Joined(ws, sep) ==
    IF ws = <<>> THEN ""
    ELSE IF Len(ws) = 1 THEN ws[1]
    ELSE ws[1] \o sep \o Joined(Tail(ws), sep)

\* "[1, 2]", "1,2" and "1, 2"
BracketText(ws) == "[" \o Joined(ws, ", ") \o "]"
CommaText(ws) == Joined(ws, ",")
SpacedText(ws) == Joined(ws, ", ")

\* the ways a text of the model is written from pieces: a list in
\* brackets, or one piece or more between commas, with or without a blank
\* after each comma
Writings ==
    ({"bracket"} \X PieceSeqs)
        \cup ({"comma", "spaced"} \X (PieceSeqs \ {<<>>}))
Written(form, ws) ==
    CASE form = "bracket" -> BracketText(ws)
      [] form = "comma"   -> CommaText(ws)
      [] form = "spaced"  -> SpacedText(ws)

\* one member of a set, or the default when the set has none
OneOf(set, default) == IF set = {} THEN default ELSE CHOOSE x \in set : TRUE

\* how a text is written: its form and its pieces; any other text of the
\* model has no form
Reading(s) ==
    OneOf({r \in Writings : s = Written(r[1], r[2])}, <<"none", <<>>>>)

\* the value of a piece read as a Python literal; a bare word is none
LiteralOf(w) ==
    IF \E i \in 0..MaxNum : w = TextOfInt(i)
    THEN IntV(CHOOSE i \in 0..MaxNum : w = TextOfInt(i))
    ELSE IF w = "'a'" THEN StrV("a")
    ELSE ErrV("ValueError", w)

\* the literal of a text from the literals of its pieces: a bracketed text
\* is a list, pieces between commas are a tuple, one piece is its value;
\* the empty text is a syntax error, and any other text is no literal
LiteralOfValues(s, form, values) ==
    IF form = "none"
    THEN ErrV(IF s = "" THEN "SyntaxError" ELSE "ValueError", s)
    ELSE IF \E i \in DOMAIN values : IsErr(values[i])
    THEN ErrV("ValueError", s)
    ELSE IF form = "bracket" THEN SeqV(values)
    ELSE IF Len(values) = 1 THEN values[1]
    ELSE TupleV(values)
LiteralOfReading(s, r) ==
    LiteralOfValues(s, r[1], [i \in DOMAIN r[2] |-> LiteralOf(r[2][i])])

\* ast.literal_eval
literal_eval(s) == LiteralOfReading(s, Reading(s))

\* the text never split: one token whatever commas it holds
Split_whole(s) == <<s>>

\* what stands between the commas of a text, blanks and brackets included;
\* a text without a comma is its own single token
TokensOfReading(s, form, ws) ==
    CASE form = "comma" -> ws
      [] form = "spaced" ->
            [i \in DOMAIN ws |-> IF i = 1 THEN ws[i] ELSE " " \o ws[i]]
      [] form = "bracket" /\ ws # <<>> ->
            [i \in DOMAIN ws |->
                (IF i = 1 THEN "[" ELSE " ") \o ws[i]
                    \o (IF i = Len(ws) THEN "]" ELSE "")]
      [] OTHER -> <<s>>
TokensOf(s, r) == TokensOfReading(s, r[1], r[2])

\* value.split(',')
Split(s) == TokensOf(s, Reading(s))

\* a token without the blanks around it: a piece, with the bracket that a
\* split left on it
Cores ==
    Pieces \cup {"[" \o w : w \in Pieces} \cup {w \o "]" : w \in Pieces}
        \cup {"[" \o w \o "]" : w \in Pieces}
Pads == {"", " "}

\* item.strip()
Strip(token) ==
    OneOf({c \in Cores : \E l \in Pads : \E r \in Pads : token = l \o c \o r},
          token)

\* the texts of a number with one digit after the point, or with none when
\* that digit is 0: a sign, the whole part, the digit
Signs == {"", "-"}
Fractions == Signs \X (0..MaxScalar) \X (0..9)
TextsOfFraction(f) ==
    {f[1] \o TextOfInt(f[2]) \o "." \o Digit(f[3])}
        \cup (IF f[3] = 0 THEN {f[1] \o TextOfInt(f[2])} ELSE {})
TenthsOf(f) == (IF f[1] = "-" THEN -1 ELSE 1) * (10 * f[2] + f[3])
\* the texts of the float that is too large, and of the one that is no
\* number
InfTexts == {"inf", "1e999"}
NanTexts == {"nan"}

\* float(s) on a text
float_of_text(s) ==
    IF NumbersOfText(s) # {}
    THEN FloatV(10 * (CHOOSE i \in NumbersOfText(s) : TRUE))
    ELSE IF s \in InfTexts THEN InfV
    ELSE IF s \in NanTexts THEN NanV
    ELSE OneOf({FloatV(TenthsOf(f)) :
                   f \in {g \in Fractions : s \in TextsOfFraction(g)}},
               ErrV("ValueError", StrV(s)))

\* the whole part rounded down, not toward zero
Trunc_floor(m) == m \div 10

\* the whole part of so many tenths, toward zero
Trunc(m) == IF m >= 0 THEN m \div 10 ELSE -((-m) \div 10)

\* int(v) on a value that is no text; an exception passes through
int_of(v) ==
    CASE v.t = "int"   -> v
      [] v.t = "bool"  -> IntV(IF v.b THEN 1 ELSE 0)
      [] v.t = "float" -> IntV(Trunc(v.m))
      [] v.t = "inf"   -> ErrV("OverflowError", v)
      [] v.t = "nan"   -> ErrV("ValueError", v)
      [] v.t = "error" -> v
      [] OTHER         -> ErrV("TypeError", v)

\* get_origin(target_type) is Union: an Optional is a Union with None
IsUnion(ty) == ty.k \in {"optional", "union"}

\* get_args of a Union; a Union inside an Optional is flattened into it
UnionArgs(ty) ==
    IF ty.k = "union" THEN ty.args
    ELSE IF ty.of.k = "union" THEN ty.of.args \o <<TNone>>
    ELSE <<ty.of, TNone>>

\* len(args) == 2 and type(None) in args
IsOptionalOfOne(args) ==
    Len(args) = 2 /\ \E i \in 1..2 : args[i] = TNone

\* next(arg for arg in args if arg is not type(None))
NonNone(args) ==
    args[CHOOSE i \in 1..Len(args) :
             args[i] # TNone /\ \A j \in 1..(i - 1) : args[j] = TNone]

\* an exception that the loop over the arguments of a Union catches
Caught(r) == IsErr(r) /\ r.kind \in {"ValueError", "TypeError"}

\* the loop over the arguments of a Union: the first conversion that the
\* loop does not catch ends it, with its value or with its exception; when
\* every one is caught, a ValueError naming the arguments
first_uncaught(value, args, rs) ==
    IF \A i \in DOMAIN rs : Caught(rs[i])
    THEN ErrV("ValueError", [value |-> value, args |-> args])
    ELSE rs[CHOOSE i \in DOMAIN rs :
                ~Caught(rs[i]) /\ \A j \in 1..(i - 1) : Caught(rs[j])]

RECURSIVE convert_value_to_type(_, _)

\* convert_value_to_type(value, arg) for each argument of a Union
union_results(value, args) ==
    [i \in DOMAIN args |-> convert_value_to_type(value, args[i])]

\* [convert_value_to_type(item, item_type) for item in items]
convert_items(items, item_type) ==
    [i \in DOMAIN items |-> convert_value_to_type(items[i], item_type)]

\* the items whose conversion raised, and the first of them: the one that
\* ends the comprehension
failed(cs) == {i \in DOMAIN cs : IsErr(cs[i])}
first_failure(cs) ==
    cs[CHOOSE i \in failed(cs) : \A j \in failed(cs) : i <= j]

\* "1,2,3": the tokens between the commas, stripped and converted; a token
\* that does not convert makes the whole text a ValueError
StrippedTokens(tokens) == [i \in DOMAIN tokens |-> StrV(Strip(tokens[i]))]
ListOrValueError(value, cs) ==
    IF failed(cs) # {} THEN ErrV("ValueError", value) ELSE SeqV(cs)
comma_separated(value, item_type) ==
    ListOrValueError(value,
        convert_items(StrippedTokens(Split(value.s)), item_type))

\* the items of a literal list converted: a ValueError or SyntaxError among
\* them is caught and the text is read as comma-separated, any other
\* exception leaves the function
list_of_literal(value, item_type, cs) ==
    IF failed(cs) = {} THEN SeqV(cs)
    ELSE IF first_failure(cs).kind \in {"ValueError", "SyntaxError"}
    THEN comma_separated(value, item_type)
    ELSE first_failure(cs)

\* a text for a list: its literal when that is a list, else comma-separated
list_of_text(value, item_type, parsed_value) ==
    IF IsErr(parsed_value) \/ parsed_value.t # "list"
    THEN comma_separated(value, item_type)
    ELSE list_of_literal(value, item_type,
                         convert_items(parsed_value.q, item_type))

\* a list converted element by element: the first raise ends it
list_of_items(cs) == IF failed(cs) = {} THEN SeqV(cs) ELSE first_failure(cs)

convert_value_to_type(value, target_type) ==
    IF value = NullV THEN NullV
    ELSE IF IsUnion(target_type) /\ ~IsOptionalOfOne(UnionArgs(target_type))
    THEN first_uncaught(value, UnionArgs(target_type),
                        union_results(value, UnionArgs(target_type)))
    ELSE LET ty == IF IsUnion(target_type)
                   THEN NonNone(UnionArgs(target_type))
                   ELSE target_type
         IN CASE ty.k = "bool" ->
                   IF value.t = "str" THEN BoolV(BoolOfText(value.s))
                   ELSE BoolV(Truthy(value))
              [] ty.k = "int" ->
                   IF value.t = "str" THEN int_of(float_of_text(value.s))
                   ELSE int_of(value)
              [] ty.k = "str" -> StrV(TextOf(value))
              [] ty.k = "path" ->
                   IF value.t = "str"
                   THEN PathV(IF value.s = "" THEN "." ELSE value.s)
                   ELSE IF value.t = "path" THEN value
                   ELSE ErrV("TypeError", value)
              [] ty.k = "list" ->
                   IF value.t = "str"
                   THEN list_of_text(value, ty.of, literal_eval(value.s))
                   ELSE IF value.t # "list" THEN ErrV("ValueError", value)
                   ELSE list_of_items(convert_items(value.q, ty.of))
              [] OTHER -> value

RECURSIVE dataclass_to_dict(_)
dataclass_to_dict(obj) ==
    IF obj.t # "obj" THEN obj
    ELSE DictV([f \in DOMAIN obj.f |->
            IF obj.f[f].t = "obj" THEN dataclass_to_dict(obj.f[f])
            ELSE IF obj.f[f].t = "list"
                 THEN SeqV([i \in DOMAIN obj.f[f].q |->
                               dataclass_to_dict(obj.f[f].q[i])])
                 ELSE obj.f[f]])

\* dict_to_dataclass leaving a field whose conversion fails at its default
RECURSIVE dict_to_dataclass_lenient(_, _)
dict_to_dataclass_lenient(data, cls) ==
    LET type_hints == TypeHints(cls)
        order == FieldOrder(cls)
        names == {order[i] : i \in 1..Len(order)}
    IN  CASE data.t = "dict" ->
              LET present == {f \in names : f \in DOMAIN data.kv}
                  conv(f) ==
                      LET value == data.kv[f]
                          field_type == type_hints[f]
                      IN  IF field_type.k = "optional"
                          THEN IF value # NullV /\ field_type.of.k = "dataclass"
                               THEN dict_to_dataclass_lenient(value, field_type.of.cls)
                               ELSE convert_value_to_type(value, field_type)
                          ELSE IF field_type.k = "dataclass"
                               THEN IF value # NullV
                                    THEN dict_to_dataclass_lenient(value, field_type.cls)
                                    ELSE NullV
                               ELSE convert_value_to_type(value, field_type)
                  field_values == [f \in present |-> conv(f)]
                  failing == {i \in 1..Len(order) :
                                 /\ order[i] \in present
                                 /\ IsErr(field_values[order[i]])}
              IN  Construct(cls, [f \in {g \in present : ~IsErr(field_values[g])}
                                     |-> field_values[f]])
          \* "field_name in data" on a list is a membership test
          [] data.t = "list" ->
              IF \E i \in DOMAIN data.q : \E f \in names : data.q[i] = StrV(f)
              THEN ErrV("TypeError", data)
              ELSE NewInstance(cls)
          \* on a text it is a substring test; the texts of the model hold
          \* a field name only when they are one
          [] data.t = "str" ->
              IF data.s \in names THEN ErrV("TypeError", data)
              ELSE NewInstance(cls)
          [] OTHER -> ErrV("TypeError", data)

\* dict_to_dataclass handing every key of the mapping to the constructor,
\* which takes no keyword that is not a field
dict_to_dataclass_strict(data, cls) ==
    IF IsDict(data) /\
       \E k \in DOMAIN data.kv :
           \A i \in 1..Len(FieldOrder(cls)) : FieldOrder(cls)[i] # k
    THEN ErrV("TypeError", data)
    ELSE dict_to_dataclass_lenient(data, cls)

RECURSIVE dict_to_dataclass(_, _)

\* the value of one field of the tree: a nested dataclass is built from its
\* own tree, any other field is converted to its type
field_value(value, field_type) ==
    IF field_type.k = "optional"
    THEN IF value # NullV /\ field_type.of.k = "dataclass"
         THEN dict_to_dataclass(value, field_type.of.cls)
         ELSE convert_value_to_type(value, field_type)
    ELSE IF field_type.k = "dataclass"
         THEN IF value # NullV
              THEN dict_to_dataclass(value, field_type.cls)
              ELSE NullV
         ELSE convert_value_to_type(value, field_type)

\* the fields, in declaration order, whose value is an exception
failing(order, field_values) ==
    {i \in 1..Len(order) :
        /\ order[i] \in DOMAIN field_values
        /\ IsErr(field_values[order[i]])}

\* cls(**field_values), unless a field raised: the first one ends the loop
instance_of(cls, order, field_values) ==
    IF failing(order, field_values) # {}
    THEN field_values[order[CHOOSE i \in failing(order, field_values) :
                               \A j \in failing(order, field_values) : i <= j]]
    ELSE Construct(cls, field_values)

dict_to_dataclass(data, cls) ==
    LET type_hints == TypeHints(cls)
        order == FieldOrder(cls)
        names == {order[i] : i \in 1..Len(order)}
    IN  CASE data.t = "dict" ->
              instance_of(cls, order,
                  [f \in {n \in names : n \in DOMAIN data.kv} |->
                      field_value(data.kv[f], type_hints[f])])
          \* "field_name in data" on a list is a membership test
          [] data.t = "list" ->
              IF \E i \in DOMAIN data.q : \E f \in names : data.q[i] = StrV(f)
              THEN ErrV("TypeError", data)
              ELSE NewInstance(cls)
          \* on a text it is a substring test; the texts of the model hold
          \* a field name only when they are one
          [] data.t = "str" ->
              IF data.s \in names THEN ErrV("TypeError", data)
              ELSE NewInstance(cls)
          [] OTHER -> ErrV("TypeError", data)

(***************************************************************************)
(* loaders.load_yaml_config and the three loaders of the manager           *)
(***************************************************************************)
Absent == [kind |-> "absent"]
Malformed == [kind |-> "malformed"]
Yaml(doc) == [kind |-> "yaml", doc |-> doc]

\* Path.exists()
Exists(fsys, path) == path \in DOMAIN fsys /\ fsys[path] # Absent

\* load_yaml_config swallowing the parse error
load_yaml_config_lenient(fsys, file_path) ==
    IF ~Exists(fsys, file_path) THEN ErrV("FileNotFoundError", file_path)
    ELSE IF fsys[file_path] = Malformed THEN EmptyDict
    ELSE IF Truthy(fsys[file_path].doc) THEN fsys[file_path].doc
    ELSE EmptyDict

load_yaml_config(fsys, file_path) ==
    IF ~Exists(fsys, file_path) THEN ErrV("FileNotFoundError", file_path)
    ELSE IF fsys[file_path] = Malformed THEN ErrV("YAMLError", file_path)
    ELSE IF Truthy(fsys[file_path].doc) THEN fsys[file_path].doc
    ELSE EmptyDict

DefaultYamlPath == "configs/default.yaml"
ModeDefaultYamlPath(mode_value) ==
    "configs/default_" \o TextOf(mode_value) \o ".yaml"

\* _load_default_yaml without the existence test
load_default_yaml_strict(fsys) == load_yaml_config(fsys, DefaultYamlPath)

load_default_yaml(fsys) ==
    IF ~Exists(fsys, DefaultYamlPath) THEN EmptyDict
    ELSE load_yaml_config(fsys, DefaultYamlPath)

load_mode_default_yaml(fsys, mode_value) ==
    IF ~Truthy(mode_value) THEN EmptyDict
    ELSE IF ~Exists(fsys, ModeDefaultYamlPath(mode_value)) THEN EmptyDict
    ELSE load_yaml_config(fsys, ModeDefaultYamlPath(mode_value))

load_user_yaml(fsys, path) ==
    IF ~Truthy(path) \/ ~Exists(fsys, path.p) THEN EmptyDict
    ELSE load_yaml_config(fsys, path.p)

(***************************************************************************)
(* A deep_merge call on its own: the arguments are drawn from bounded     *)
(* trees, the action applies the function.                                 *)
(***************************************************************************)
Keys == {"a", "b"}
Scalars == {IntV(i) : i \in 1..MaxScalar}
DictsOver(keys, vals) ==
    {DictV(kv) : kv \in UNION {[ks -> vals] : ks \in SUBSET keys}}
Trees1 == DictsOver(Keys, Scalars)
Trees2 == DictsOver(Keys, Scalars \cup Trees1)

\* the locals of parse_args before a call has assigned them
NoLocals ==
    /\ user_config_path = NullV
    /\ cli_mode_value = NullV
    /\ remaining_argv_for_tyro = <<>>
    /\ default_yaml_content = NullV
    /\ user_yaml_content = NullV
    /\ authoritative_mode = NullV
    /\ mode_default_yaml_content = NullV
    /\ final_default_dict_for_tyro = NullV
    /\ default_instance_for_tyro = NullV
    /\ final_config_obj = NullV
    /\ raised = NullV
    /\ tyro_invoked = FALSE
    /\ probed = {}

\* no call of parse_args under way and no manager set up
Idle ==
    /\ fs = [p \in {} |-> Absent]
    /\ mode_field = NullV
    /\ pc = "idle"
    /\ argv = <<>>
    /\ prev = NullV
    /\ NoLocals

\* no call of deep_merge, convert_value_to_type, dict_to_dataclass on its own
NoMerge == override = EmptyDict /\ base = EmptyDict /\ merged = NullV
NoConvert == conv_value = NullV /\ conv_type = NullV /\ converted = Pending
NoMaterialize ==
    mat_tree = NullV /\ mat_class = NullV /\ materialized = Pending
\* no call of parse_known_args on its own, no chain of merges on a heap
NoScan == scan_argv = <<>> /\ scan_mode = NullV /\ scanned = Pending
NoHeap ==
    /\ heap = <<>>
    /\ h_layers = <<>>
    /\ h_roots = <<>>
    /\ h_acc = NullV
    /\ h_done = 0
\* no three trees merged in two groupings
NoFold == between = NullV /\ regrouped = NullV

InitMerge ==
    /\ Idle
    /\ NoConvert
    /\ NoMaterialize
    /\ NoScan
    /\ NoHeap
    /\ NoFold
    /\ override \in Trees2
    /\ base \in Trees2
    /\ merged = NullV

CallDeepMerge ==
    /\ merged = NullV
    /\ merged' = deep_merge(override, base)
    /\ UNCHANGED <<override, base>>
    /\ UNCHANGED <<callVars, convertVars, materializeVars, scanVars, heapVars,
                 foldVars>>

NextMerge == CallDeepMerge

SpecMerge == InitMerge /\ [][NextMerge]_vars

(***************************************************************************)
(* Three trees merged as parse_args merges its sources, one after another  *)
(* onto what is accumulated, and merged with the upper two folded first.   *)
(***************************************************************************)
\* mappings that hold scalars, sequences and mappings under the same keys
FoldInner ==
    DictsOver(Keys, {IntV(1), IntV(2), DictV([a |-> IntV(1)])})
FoldTrees ==
    DictsOver({"a"}, {IntV(1), SeqV(<<IntV(1)>>)} \cup FoldInner)

\* the sources merged in the order reversed
merge_in_turn_reversed(c, b, a) == deep_merge(b, deep_merge(c, a))
\* steps 2e and 2f of parse_args: b onto the accumulated a, then c
merge_in_turn(c, b, a) == deep_merge(c, deep_merge(b, a))
\* c folded onto b first, the fold merged onto the accumulated a
merge_folded(c, b, a) == deep_merge(deep_merge(c, b), a)

InitFold ==
    /\ Idle
    /\ NoConvert
    /\ NoMaterialize
    /\ NoScan
    /\ NoHeap
    /\ override \in FoldTrees
    /\ between \in FoldTrees
    /\ base \in FoldTrees
    /\ merged = NullV
    /\ regrouped = NullV

CallInTurn ==
    /\ merged = NullV
    /\ merged' = merge_in_turn(override, between, base)
    /\ UNCHANGED <<override, base, between, regrouped>>
    /\ UNCHANGED <<callVars, convertVars, materializeVars, scanVars, heapVars>>

CallFolded ==
    /\ regrouped = NullV
    /\ regrouped' = merge_folded(override, between, base)
    /\ UNCHANGED <<mergeVars, between>>
    /\ UNCHANGED <<callVars, convertVars, materializeVars, scanVars, heapVars>>

NextFold == CallInTurn \/ CallFolded

SpecFold == InitFold /\ [][NextFold]_vars

(***************************************************************************)
(* The merges of parse_args on the dicts themselves: every dict an object  *)
(* at an address, a nested dict held by reference, so that two dicts can   *)
(* share a nested one and an assignment to a key shows in every holder.    *)
(***************************************************************************)
\* the reference to the dict at an address
Ref(a) == [t |-> "ref", a |-> a]
IsRef(cell) == cell.t = "ref"
NoItems == [k \in {} |-> NullV]

RECURSIVE store(_, _)
RECURSIVE store_items(_, _, _, _)
\* a loaded tree built as dicts on the heap, the nested ones first
store_nested(h, tree, ks, items, k, nested) ==
    store_items(nested.heap, tree, ks \ {k}, (k :> Ref(nested.at)) @@ items)
store_item(h, tree, ks, items, k) ==
    IF IsDict(tree.kv[k])
    THEN store_nested(h, tree, ks, items, k, store(h, tree.kv[k]))
    ELSE store_items(h, tree, ks \ {k}, (k :> tree.kv[k]) @@ items)
store_items(h, tree, ks, items) ==
    IF ks = {} THEN [heap |-> Append(h, items), at |-> Len(h) + 1]
    ELSE store_item(h, tree, ks, items, CHOOSE k \in ks : TRUE)
store(h, tree) == store_items(h, tree, DOMAIN tree.kv, NoItems)

RECURSIVE load_all(_, _, _, _)
\* the trees of a call loaded one after another
load_next(layers, i, roots, stored) ==
    load_all(stored.heap, layers, i + 1, Append(roots, stored.at))
load_all(h, layers, i, roots) ==
    IF i > Len(layers) THEN [heap |-> h, roots |-> roots]
    ELSE load_next(layers, i, roots, store(h, layers[i]))

RECURSIVE tree_at(_, _)
\* the tree a dict holds
tree_at(h, a) ==
    DictV([k \in DOMAIN h[a] |->
              IF IsRef(h[a][k]) THEN tree_at(h, h[a][k].a) ELSE h[a][k]])

\* result = base: the base itself in place of a copy of it
dict_copy_alias(h, b) == [heap |-> h, at |-> b]
\* result = dict(base): a new dict holding what base holds
dict_copy(h, b) == [heap |-> Append(h, h[b]), at |-> Len(h) + 1]
\* result[k] = v
set_item(h, r, k, cell) == [h EXCEPT ![r] = (k :> cell) @@ @]

RECURSIVE deep_merge_at(_, _, _)
RECURSIVE merge_items(_, _, _, _)
\* the loop of deep_merge over override.items()
merge_nested(h, o, r, ks, k, sub) ==
    merge_items(set_item(sub.heap, r, k, Ref(sub.at)), o, r, ks \ {k})
merge_item(h, o, r, ks, k) ==
    IF IsRef(h[o][k]) /\ k \in DOMAIN h[r] /\ IsRef(h[r][k])
    THEN merge_nested(h, o, r, ks, k, deep_merge_at(h, h[o][k].a, h[r][k].a))
    ELSE merge_items(set_item(h, r, k, h[o][k]), o, r, ks \ {k})
merge_items(h, o, r, ks) ==
    IF ks = {} THEN [heap |-> h, at |-> r]
    ELSE merge_item(h, o, r, ks, CHOOSE k \in ks : TRUE)
merge_into(o, result) ==
    merge_items(result.heap, o, result.at, DOMAIN result.heap[o])
\* deep_merge(override, base) on the dicts at two addresses
deep_merge_at(h, o, b) == merge_into(o, dict_copy(h, b))

\* the trees the files of a call can hold
LayerNested ==
    DictsOver({"value"}, {IntV(1), DictV([value |-> IntV(2)]),
                          DictV([name |-> IntV(3)])})
LayerTrees ==
    DictsOver({"nested"}, {IntV(1)} \cup LayerNested)
        \cup {DictV([simple_value |-> IntV(1)])}
\* the sources of a call from the lowest: the schema defaults, default.yaml,
\* the mode default, the user file
LayerSeqs ==
    {<<dataclass_to_dict(NewInstance(ConfigClass)), dyc, mdyc, uyc>> :
        dyc \in LayerTrees, mdyc \in LayerTrees, uyc \in LayerTrees}

InitHeap ==
    /\ Idle
    /\ NoMerge
    /\ NoConvert
    /\ NoMaterialize
    /\ NoScan
    /\ NoFold
    /\ h_layers \in LayerSeqs
    /\ heap = load_all(<<>>, h_layers, 1, <<>>).heap
    /\ h_roots = load_all(<<>>, h_layers, 1, <<>>).roots
    /\ h_acc = h_roots[1]
    /\ h_done = 1

\* the assignment of steps 2b, 2e, 2f of parse_args
merge_layer(h, acc, root) ==
    IF DOMAIN h[root] # {} THEN deep_merge_at(h, root, acc)
    ELSE [heap |-> h, at |-> acc]

\* steps 2b, 2e, 2f of parse_args: the next source, if it holds anything,
\* merged onto what is accumulated
MergeNextLayer ==
    /\ h_done \in 1..(Len(h_layers) - 1)
    /\ heap' = merge_layer(heap, h_acc, h_roots[h_done + 1]).heap
    /\ h_acc' = merge_layer(heap, h_acc, h_roots[h_done + 1]).at
    /\ h_done' = h_done + 1
    /\ UNCHANGED <<h_layers, h_roots>>
    /\ UNCHANGED <<callVars, mergeVars, convertVars, materializeVars, scanVars,
                   foldVars>>

NextHeap == MergeNextLayer

SpecHeap == InitHeap /\ [][NextHeap]_vars

(***************************************************************************)
(* A deep_merge call on values of every shape: a mapping, a sequence or a  *)
(* scalar on either side, at the top and at a key.                         *)
(***************************************************************************)
\* the sequences of at most two scalars, in ascending order
Seqs ==
    {SeqV(<<>>)} \cup {SeqV(<<x>>) : x \in Scalars}
        \cup {SeqV(<<p[1], p[2]>>) :
                 p \in {r \in Scalars \X Scalars : r[1].i < r[2].i}}
Leaves == Scalars \cup Seqs
\* what a YAML document or a caller can hand over in place of a mapping
NonMappings == {NullV, StrV(""), StrV("ab")} \cup Leaves
Shapes ==
    DictsOver(Keys, Leaves \cup DictsOver({"a"}, Leaves)) \cup NonMappings

InitShapes ==
    /\ Idle
    /\ NoConvert
    /\ NoMaterialize
    /\ NoScan
    /\ NoHeap
    /\ NoFold
    /\ override \in Shapes
    /\ base \in Shapes
    /\ merged = NullV

SpecShapes == InitShapes /\ [][NextMerge]_vars

(***************************************************************************)
(* A dict_to_dataclass call on its own, on trees that hold some of the     *)
(* schema's fields and lack others.                                        *)
(***************************************************************************)
NestedTrees == DictsOver({"value", "name"}, {IntV(7), StrV("8")})

\* trees for TestConfig: without a nested key, or with a nested sub-tree
ConfigTrees ==
    LET tops == DictsOver({"simple_value", "model_type"}, {IntV(5), StrV("6")})
    IN  tops \cup
        {DictV([k \in DOMAIN top.kv \cup {"nested"} |->
                   IF k = "nested" THEN n ELSE top.kv[k]]) :
            top \in tops, n \in NestedTrees}

\* trees for ListConfig: no items, items of None, up to two item trees
ListTrees ==
    {EmptyDict, DictV([items |-> NullV]), DictV([items |-> SeqV(<<>>)])}
        \cup {DictV([items |-> SeqV(<<n>>)]) : n \in NestedTrees}
        \cup {DictV([items |-> SeqV(<<n, m>>)]) :
                 n \in NestedTrees, m \in NestedTrees}

MaterializeTrees(cls) ==
    CASE cls = "TestConfig" -> ConfigTrees
      [] cls = "ListConfig" -> ListTrees
      [] cls = "NestedConfig" -> NestedTrees

InitMaterialize ==
    /\ Idle
    /\ NoMerge
    /\ NoConvert
    /\ NoScan
    /\ NoHeap
    /\ NoFold
    /\ mat_class \in {"TestConfig", "ListConfig", "NestedConfig"}
    /\ mat_tree \in MaterializeTrees(mat_class)
    /\ materialized = Pending

CallDictToDataclass ==
    /\ materialized = Pending
    /\ materialized' = dict_to_dataclass(mat_tree, mat_class)
    /\ UNCHANGED <<mat_tree, mat_class>>
    /\ UNCHANGED <<callVars, mergeVars, convertVars, scanVars, heapVars,
                 foldVars>>

NextMaterialize == CallDictToDataclass

SpecMaterialize == InitMaterialize /\ [][NextMaterialize]_vars

(***************************************************************************)
(* A convert_value_to_type call on its own: texts, numbers, booleans,      *)
(* sequences and mappings against scalar and list types.                   *)
(***************************************************************************)
BoolTexts ==
    {"true", "TRUE", "True", "tRuE", "yes", "YES", "Yes", "y", "Y", "1",
     "false", "FALSE", "False", "no", "NO", "No", "0", "on", "ON", ""}
ListTexts ==
    UNION {{BracketText(ws), CommaText(ws), SpacedText(ws)} : ws \in PieceSeqs}
NumberTexts ==
    {"3.0", "12", "2.7", "-2.7", "-2", "0.5", "abc", "inf", "1e999", "nan"}
SequenceItems == {IntV(1), StrV("2"), StrV("a")}
ConvValues ==
    {StrV(x) : x \in BoolTexts \cup ListTexts \cup NumberTexts}
        \cup {NullV, IntV(0), IntV(2), BoolV(TRUE), BoolV(FALSE)}
        \cup {FloatV(27), FloatV(-27), FloatV(0), InfV, NanV, PathV("p")}
        \cup {SeqV(<<>>)} \cup {SeqV(<<x>>) : x \in SequenceItems}
        \cup {SeqV(<<x, y>>) : x \in SequenceItems, y \in SequenceItems}
        \cup {TupleV(<<IntV(1), IntV(2)>>), EmptyDict, DictV([a |-> IntV(1)])}
UnionTypes ==
    {TUnion(<<TInt, TStr>>), TUnion(<<TStr, TInt>>),
     TUnion(<<TInt, TPath>>), TUnion(<<TInt, TList(TInt)>>),
     TUnion(<<TPath, TInt, TBool>>)}
ConvTypes ==
    {TBool, TInt, TStr, TPath, TList(TInt), TList(TStr), TList(TBool)}
        \cup UnionTypes
        \cup {TOptional(ty) : ty \in {TBool, TInt, TList(TInt)} \cup UnionTypes}

InitConvert ==
    /\ Idle
    /\ NoMerge
    /\ NoMaterialize
    /\ NoScan
    /\ NoHeap
    /\ NoFold
    /\ conv_value \in ConvValues
    /\ conv_type \in ConvTypes
    /\ converted = Pending

CallConvert ==
    /\ converted = Pending
    /\ converted' = convert_value_to_type(conv_value, conv_type)
    /\ UNCHANGED <<conv_value, conv_type>>
    /\ UNCHANGED <<callVars, mergeVars, materializeVars, scanVars, heapVars,
                 foldVars>>

NextConvert == CallConvert

SpecConvert == InitConvert /\ [][NextConvert]_vars

(***************************************************************************)
(* ConfigManager.parse_args                                                *)
(***************************************************************************)
config_field == "config"

\* an argument of argv: "--flag value" or "--flag=value"
Arg(flag, val) == [flag |-> flag, val |-> val]

\* str.replace('_', '-') on the field names of the model
Dashed(name) == IF name = "model_type" THEN "model-type" ELSE name

\* the option strings the pre-parser registers for the config field
ConfigFlags == {config_field}
\* the option strings the pre-parser registers for the mode field
ModeFlags(mf) == IF Truthy(mf) THEN {Dashed(mf.s), mf.s} ELSE {}

\* value of the last occurrence of one of the flags, None without one:
\* argparse's store action keeps the latest value of a dest
LastValue(args, flags) ==
    LET at == {i \in 1..Len(args) : args[i].flag \in flags}
    IN  IF at = {} THEN NullV
        ELSE StrV(args[CHOOSE i \in at : \A j \in at : j <= i].val)

IsDirective(a, mf) == a.flag \in ConfigFlags \cup ModeFlags(mf)

\* pre_parser.parse_known_args(raw_argv)
PreParsedConfigPath(args) ==
    LET user_config_path_str == LastValue(args, ConfigFlags)
    IN  IF Truthy(user_config_path_str) THEN PathV(user_config_path_str.s)
        ELSE NullV
PreParsedMode(args, mf) ==
    IF Truthy(mf) THEN LastValue(args, ModeFlags(mf)) ELSE NullV
\* the pre-parse handing nothing on to tyro
RemainingArgv_none(args, mf) == <<>>
RemainingArgv(args, mf) ==
    SelectSeq(args, LAMBDA a : ~IsDirective(a, mf))

\* the mode probe asking the base default before the user source
AuthoritativeMode_baseFirst(cmv, mf, uyc, dyc) ==
    IF ~Truthy(cmv) /\ Truthy(mf)
    THEN IF Truthy(dyc) /\ mf.s \in DOMAIN dyc.kv THEN dyc.kv[mf.s]
         ELSE IF Truthy(uyc) /\ mf.s \in DOMAIN uyc.kv THEN uyc.kv[mf.s]
         ELSE IF mf.s \in DOMAIN NewInstance(ConfigClass).f
              THEN NewInstance(ConfigClass).f[mf.s]
              ELSE NullV
    ELSE cmv

\* step 2d of parse_args
AuthoritativeMode(cmv, mf, uyc, dyc) ==
    IF ~Truthy(cmv) /\ Truthy(mf)
    THEN IF Truthy(uyc) /\ mf.s \in DOMAIN uyc.kv THEN uyc.kv[mf.s]
         ELSE IF Truthy(dyc) /\ mf.s \in DOMAIN dyc.kv THEN dyc.kv[mf.s]
         ELSE IF mf.s \in DOMAIN NewInstance(ConfigClass).f
              THEN NewInstance(ConfigClass).f[mf.s]
              ELSE NullV
    ELSE cmv

\* the merges with the user source below the mode default
MergeLayers_userBelowMode(dflt, dyc, mdyc, uyc) ==
    LET d1 == IF Truthy(dyc) THEN deep_merge(dyc, dflt) ELSE dflt
        d2 == IF Truthy(uyc) THEN deep_merge(uyc, d1) ELSE d1
    IN  IF Truthy(mdyc) THEN deep_merge(mdyc, d2) ELSE d2

\* no file merged: the schema defaults as they are
MergeLayers_schemaOnly(dflt, dyc, mdyc, uyc) == dflt

\* steps 2a, 2b, 2e and 2f of parse_args: the merges in their order
MergeLayers(dflt, dyc, mdyc, uyc) ==
    LET d1 == IF Truthy(dyc) THEN deep_merge(dyc, dflt) ELSE dflt
        d2 == IF Truthy(mdyc) THEN deep_merge(mdyc, d1) ELSE d1
    IN  IF Truthy(uyc) THEN deep_merge(uyc, d2) ELSE d2

\* the stamp left out
StampConfigPath_never(obj, ucp) == obj

\* setattr(obj, config_field, user_config_path) under its two conditions
StampConfigPath(obj, ucp) ==
    IF config_field \in DOMAIN obj.f /\ Truthy(ucp)
    THEN ObjV(obj.cls, [obj.f EXCEPT ![config_field] = ucp])
    ELSE obj

\* the locals a call holds when it reaches tyro.cli, or the exception;
\* probed is the set of paths whose existence the call has tested
Locals(dyc, uyc, am, mdyc, dict, inst, exc, tested) ==
    [dyc |-> dyc, uyc |-> uyc, am |-> am, mdyc |-> mdyc, dict |-> dict,
     inst |-> inst, exc |-> exc, probed |-> tested]

\* steps 2 and 3 of parse_args
ResolveDefaults(fsys, mf, ucp, cmv) ==
    LET dflt == dataclass_to_dict(NewInstance(ConfigClass))
        dyc == load_default_yaml(fsys)
        p1 == {DefaultYamlPath}
    IN  IF IsErr(dyc)
        THEN Locals(NullV, NullV, NullV, NullV, dflt, NullV, dyc, p1)
        ELSE
    LET uyc == IF Truthy(ucp) THEN load_user_yaml(fsys, ucp) ELSE EmptyDict
        p2 == IF Truthy(ucp) THEN p1 \cup {ucp.p} ELSE p1
    IN  IF IsErr(uyc)
        THEN Locals(dyc, NullV, NullV, NullV,
                    MergeLayers(dflt, dyc, NullV, NullV), NullV, uyc, p2)
        ELSE
    LET am == AuthoritativeMode(cmv, mf, uyc, dyc)
        mdyc == IF Truthy(mf) /\ Truthy(am)
                THEN load_mode_default_yaml(fsys, am) ELSE NullV
        p3 == IF Truthy(mf) /\ Truthy(am)
              THEN p2 \cup {ModeDefaultYamlPath(am)} ELSE p2
    IN  IF IsErr(mdyc)
        THEN Locals(dyc, uyc, am, NullV,
                    MergeLayers(dflt, dyc, NullV, NullV), NullV, mdyc, p3)
        ELSE
    LET dict == MergeLayers(dflt, dyc, mdyc, uyc)
        inst == dict_to_dataclass(dict, ConfigClass)
    IN  IF IsErr(inst)
        THEN Locals(dyc, uyc, am, mdyc, dict, NullV, inst, p3)
        ELSE Locals(dyc, uyc, am, mdyc, dict,
                    StampConfigPath(inst, ucp), NullV, p3)

(***************************************************************************)
(* tyro.cli, the CLI application layer: a flag addresses a field by its    *)
(* dotted path, in hyphen or underscore spelling, its text is parsed to    *)
(* the field's type, a later occurrence replaces an earlier one; --help    *)
(* and an argument it cannot apply end in SystemExit.                      *)
(***************************************************************************)
FlagPath(flag) ==
    CASE flag \in {"simple-value", "simple_value"} -> <<"simple_value">>
      [] flag \in {"model-type", "model_type"}     -> <<"model_type">>
      [] flag = "config"                           -> <<"config">>
      [] flag = "nested.value"                     -> <<"nested", "value">>
      [] flag = "nested.name"                      -> <<"nested", "name">>
      [] OTHER                                     -> <<>>

PathType(path) ==
    IF Len(path) = 1 THEN TypeHints("TestConfig")[path[1]]
    ELSE TypeHints(TypeHints("TestConfig")[path[1]].cls)[path[2]]

ParseCliText(text, ty) ==
    LET target == IF ty.k = "optional" THEN ty.of ELSE ty
    IN  CASE target.k = "int" ->
               IF IntegersOfText(text) # {}
               THEN IntV(CHOOSE i \in IntegersOfText(text) : TRUE)
               ELSE ErrV("SystemExit", 2)
          [] target.k = "str"  -> StrV(text)
          [] target.k = "path" -> PathV(text)
          [] OTHER -> ErrV("SystemExit", 2)

SetPath(obj, path, v) ==
    IF Len(path) = 1
    THEN ObjV(obj.cls, [obj.f EXCEPT ![path[1]] = v])
    ELSE ObjV(obj.cls,
              [obj.f EXCEPT ![path[1]] =
                  ObjV(@.cls, [@.f EXCEPT ![path[2]] = v])])

RECURSIVE TyroCli(_, _)
TyroCli(args, default) ==
    IF args = <<>> THEN default
    ELSE LET a == Head(args)
             path == FlagPath(a.flag)
         IN  IF a.flag = "help" THEN ErrV("SystemExit", 0)
             ELSE IF path = <<>> THEN ErrV("SystemExit", 2)
             ELSE LET v == ParseCliText(a.val, PathType(path))
                  IN  IF IsErr(v) THEN v
                      ELSE TyroCli(Tail(args), SetPath(default, path, v))

(***************************************************************************)
(* The files and the command lines of the model.                           *)
(***************************************************************************)
U1 == "u1.yaml"
U2 == "u2.yaml"
BasicYamlPath == ModeDefaultYamlPath(StrV("basic"))
AdvancedYamlPath == ModeDefaultYamlPath(StrV("advanced"))

Paths == {DefaultYamlPath, BasicYamlPath, AdvancedYamlPath, U1, U2}

Nested(kv) == DictV(kv)

Contents(path) ==
    CASE path = DefaultYamlPath ->
           {Absent,
            Yaml(DictV([simple_value |-> IntV(10),
                        model_type |-> StrV("advanced"),
                        nested |-> Nested([value |-> IntV(11),
                                           name |-> StrV("base")])])),
            Yaml(DictV([nested |-> Nested([name |-> StrV("base")])]))}
      [] path = BasicYamlPath ->
           {Yaml(NullV),
            Yaml(DictV([simple_value |-> IntV(20),
                        nested |-> Nested([value |-> IntV(21)])]))}
      [] path = AdvancedYamlPath ->
           {Absent,
            Yaml(DictV([nested |-> Nested([value |-> IntV(31),
                                           name |-> IntV(32)])])),
            Yaml(DictV([model_type |-> StrV("basic"),
                        simple_value |-> IntV(30)]))}
      [] path = U1 ->
           {Malformed,
            Yaml(DictV([model_type |-> StrV("advanced"),
                        simple_value |-> IntV(40),
                        nested |-> Nested([name |-> StrV("u1")])])),
            Yaml(DictV([config |-> StrV("zz.yaml"),
                        nested |-> Nested([value |-> IntV(41)])]))}
      [] path = U2 ->
           {Absent,
            Yaml(DictV([model_type |-> StrV("basic"),
                        nested |-> Nested([value |-> IntV(51)])])),
            Yaml(DictV([simple_value |-> StrV("50.0")]))}

FileSystems == {f \in [Paths -> UNION {Contents(p) : p \in Paths}] :
                   \A p \in Paths : f[p] \in Contents(p)}

Args == {Arg("config", U1), Arg("config", U2),
         Arg("model-type", "advanced"), Arg("nested.value", "8"),
         Arg("help", "")}

Argvs == UNION {[1..n -> Args] : n \in 0..MaxArgs}

\* files holding values that their fields' types do not take
IllTypedContents(path) ==
    CASE path = DefaultYamlPath ->
           {Absent, Yaml(DictV([simple_value |-> StrV("abc")]))}
      [] path = BasicYamlPath -> {Yaml(NullV)}
      [] path = AdvancedYamlPath ->
           {Absent, Yaml(DictV([nested |-> Nested([value |-> StrV("x1")])]))}
      [] path = U1 ->
           {Yaml(DictV([simple_value |-> StrV("abc"),
                        nested |-> Nested([value |-> IntV(41)])])),
            Yaml(DictV([nested |-> IntV(5)])),
            Yaml(DictV([model_type |-> StrV("advanced"),
                        config |-> IntV(5)]))}
      [] path = U2 ->
           {Yaml(DictV([simple_value |-> StrV("50.0")]))}

IllTypedFileSystems ==
    {f \in [Paths -> UNION {IllTypedContents(p) : p \in Paths}] :
        \A p \in Paths : f[p] \in IllTypedContents(p)}

\* keys that name no field of the class, as a file may hold beside its
\* fields: names of no field at all and names of fields of the other class
UnknownKeys(cls, path) ==
    IF cls = "TestConfig"
    THEN [extra |-> IF path = DefaultYamlPath
                    THEN DictV([value |-> IntV(7)]) ELSE IntV(7),
          value |-> IntV(8)]
    ELSE [extra |-> SeqV(<<IntV(9)>>),
          model_type |-> StrV("advanced"),
          simple_value |-> StrV("abc")]

RECURSIVE WithUnknownKeys(_, _, _)
\* a tree with the unknown keys added at the top and in its nested mappings
WithUnknownKeys(tree, cls, path) ==
    IF ~IsDict(tree) THEN tree
    ELSE DictV([k \in DOMAIN tree.kv \cup DOMAIN UnknownKeys(cls, path) |->
                  IF k \in DOMAIN UnknownKeys(cls, path)
                  THEN UnknownKeys(cls, path)[k]
                  ELSE IF TypeHints(cls)[k].k = "dataclass"
                  THEN WithUnknownKeys(tree.kv[k], TypeHints(cls)[k].cls,
                                       path)
                  ELSE tree.kv[k]])

\* the files of the calls, their mappings holding unknown keys
UnknownKeyContents(path) ==
    {IF c.kind = "yaml" THEN Yaml(WithUnknownKeys(c.doc, ConfigClass, path))
     ELSE c : c \in Contents(path)}

UnknownKeyFileSystems ==
    {f \in [Paths -> UNION {UnknownKeyContents(p) : p \in Paths}] :
        \A p \in Paths : f[p] \in UnknownKeyContents(p)}

(***************************************************************************)
(* The calls of parse_args on one manager over unchanging files.           *)
(***************************************************************************)
Init ==
    /\ fs \in FileSystems
    /\ mode_field \in {NullV, StrV("model_type")}
    /\ pc = "idle"
    /\ argv = <<>>
    /\ prev = NullV
    /\ NoLocals
    /\ NoMerge
    /\ NoConvert
    /\ NoMaterialize
    /\ NoScan
    /\ NoHeap
    /\ NoFold

\* the pre-parse keeping the config path of the call before when the
\* command line gives none
BeginCall_sticky(argvs) ==
    /\ \E raw_argv \in argvs :
        /\ argv' = raw_argv
        /\ user_config_path' =
              IF PreParsedConfigPath(raw_argv) = NullV THEN user_config_path
              ELSE PreParsedConfigPath(raw_argv)
        /\ cli_mode_value' = PreParsedMode(raw_argv, mode_field)
        /\ remaining_argv_for_tyro' = RemainingArgv(raw_argv, mode_field)
    /\ pc' = "preparsed"
    /\ default_yaml_content' = NullV
    /\ user_yaml_content' = NullV
    /\ authoritative_mode' = NullV
    /\ mode_default_yaml_content' = NullV
    /\ final_default_dict_for_tyro' = NullV
    /\ default_instance_for_tyro' = NullV
    /\ final_config_obj' = NullV
    /\ raised' = NullV
    /\ tyro_invoked' = FALSE
    /\ probed' = {}
    /\ UNCHANGED <<fs, mode_field, pureVars>>

\* a manager over files with ill-typed values
InitIllTyped ==
    /\ fs \in IllTypedFileSystems
    /\ mode_field \in {NullV, StrV("model_type")}
    /\ pc = "idle"
    /\ argv = <<>>
    /\ prev = NullV
    /\ NoLocals
    /\ NoMerge
    /\ NoConvert
    /\ NoMaterialize
    /\ NoScan
    /\ NoHeap
    /\ NoFold

\* a manager over files that hold unknown keys
InitUnknownKeys ==
    /\ fs \in UnknownKeyFileSystems
    /\ mode_field \in {NullV, StrV("model_type")}
    /\ pc = "idle"
    /\ argv = <<>>
    /\ prev = NullV
    /\ NoLocals
    /\ NoMerge
    /\ NoConvert
    /\ NoMaterialize
    /\ NoScan
    /\ NoHeap
    /\ NoFold

\* step 1 of parse_args: the pre-parse of the directive arguments, with
\* every local of the call fresh
BeginCall(argvs) ==
    /\ \E raw_argv \in argvs :
        /\ argv' = raw_argv
        /\ user_config_path' = PreParsedConfigPath(raw_argv)
        /\ cli_mode_value' = PreParsedMode(raw_argv, mode_field)
        /\ remaining_argv_for_tyro' = RemainingArgv(raw_argv, mode_field)
    /\ pc' = "preparsed"
    /\ default_yaml_content' = NullV
    /\ user_yaml_content' = NullV
    /\ authoritative_mode' = NullV
    /\ mode_default_yaml_content' = NullV
    /\ final_default_dict_for_tyro' = NullV
    /\ default_instance_for_tyro' = NullV
    /\ final_config_obj' = NullV
    /\ raised' = NullV
    /\ tyro_invoked' = FALSE
    /\ probed' = {}
    /\ UNCHANGED <<fs, mode_field, pureVars>>

\* a call of parse_args begins: the first one, or one after a call that
\* has returned or raised
PreParse ==
    /\ pc \in {"idle", "returned", "raised"}
    /\ BeginCall(Argvs)
    /\ UNCHANGED prev

\* the defaults built as if the mode field were always model_type
BuildDefaults_modeAlways ==
    /\ pc = "preparsed"
    /\ LET l == ResolveDefaults(fs, StrV("model_type"), user_config_path,
                                cli_mode_value)
       IN  /\ default_yaml_content' = l.dyc
           /\ user_yaml_content' = l.uyc
           /\ authoritative_mode' = l.am
           /\ mode_default_yaml_content' = l.mdyc
           /\ final_default_dict_for_tyro' = l.dict
           /\ default_instance_for_tyro' = l.inst
           /\ raised' = l.exc
           /\ probed' = l.probed
           /\ pc' = IF IsErr(l.exc) THEN "raised" ELSE "defaults"
    /\ UNCHANGED <<fs, mode_field, argv, user_config_path, cli_mode_value,
                   remaining_argv_for_tyro, final_config_obj, tyro_invoked,
                   prev, pureVars>>

\* steps 2 and 3 of parse_args: load, merge, materialize
BuildDefaults ==
    /\ pc = "preparsed"
    /\ LET l == ResolveDefaults(fs, mode_field, user_config_path,
                                cli_mode_value)
       IN  /\ default_yaml_content' = l.dyc
           /\ user_yaml_content' = l.uyc
           /\ authoritative_mode' = l.am
           /\ mode_default_yaml_content' = l.mdyc
           /\ final_default_dict_for_tyro' = l.dict
           /\ default_instance_for_tyro' = l.inst
           /\ raised' = l.exc
           /\ probed' = l.probed
           /\ pc' = IF IsErr(l.exc) THEN "raised" ELSE "defaults"
    /\ UNCHANGED <<fs, mode_field, argv, user_config_path, cli_mode_value,
                   remaining_argv_for_tyro, final_config_obj, tyro_invoked,
                   prev, pureVars>>

\* step 4 of parse_args: the call of tyro.cli
CallTyro ==
    /\ pc = "defaults"
    /\ tyro_invoked' = TRUE
    /\ LET r == TyroCli(remaining_argv_for_tyro, default_instance_for_tyro)
       IN  IF IsErr(r)
           THEN /\ raised' = r
                /\ pc' = "raised"
                /\ UNCHANGED final_config_obj
           ELSE /\ final_config_obj' = r
                /\ pc' = "tyro_done"
                /\ UNCHANGED raised
    /\ UNCHANGED <<fs, mode_field, argv, user_config_path, cli_mode_value,
                   remaining_argv_for_tyro, default_yaml_content,
                   user_yaml_content, authoritative_mode,
                   mode_default_yaml_content, final_default_dict_for_tyro,
                   default_instance_for_tyro, probed, prev, pureVars>>

\* step 5 of parse_args: the final stamp of the config path, and the return
Return ==
    /\ pc = "tyro_done"
    /\ final_config_obj' = StampConfigPath(final_config_obj, user_config_path)
    /\ pc' = "returned"
    /\ UNCHANGED <<fs, mode_field, argv, user_config_path, cli_mode_value,
                   remaining_argv_for_tyro, default_yaml_content,
                   user_yaml_content, authoritative_mode,
                   mode_default_yaml_content, final_default_dict_for_tyro,
                   default_instance_for_tyro, raised, tyro_invoked, probed,
                   prev, pureVars>>

Next == PreParse \/ BuildDefaults \/ CallTyro \/ Return

Spec == Init /\ [][Next]_vars

SpecIllTyped == InitIllTyped /\ [][Next]_vars

SpecUnknownKeys == InitUnknownKeys /\ [][Next]_vars

(***************************************************************************)
(* Call after call on one manager, each remembering the call before it:    *)
(* its arguments and what it returned or raised.                           *)
(***************************************************************************)
\* the command lines of at most one argument
CallArgvs == {<<>>} \cup {<<a>> : a \in Args}

FirstCall ==
    /\ pc = "idle"
    /\ BeginCall(CallArgvs)
    /\ UNCHANGED prev

NextCall ==
    /\ pc \in {"returned", "raised"}
    /\ BeginCall(CallArgvs)
    /\ prev' = [argv |-> argv, obj |-> final_config_obj, raised |-> raised]

NextCalls == FirstCall \/ NextCall \/ BuildDefaults \/ CallTyro \/ Return

SpecCalls == Init /\ [][NextCalls]_vars

(***************************************************************************)
(* The pre-parser of parse_args on its own: argparse's parse_known_args    *)
(* over the words of a command line, token by token.                       *)
(***************************************************************************)
\* the most words of a command line
MaxTokens == 3

\* what follows "--" in the options of the command lines
FlagNames == {"config", "conf", "model-type", "model_type", "model", "foo"}
\* the options written with their value attached
AttachedNames == {"conf", "model", "model-type", "foo"}
AttachedValue == "adv"
\* the words that are no options
Words == {"u1.yaml", "adv"}

\* an option of the command line, bare or with "=value"; any other word
OptTok(name) == [k |-> "opt", name |-> name, has |-> FALSE, val |-> ""]
OptEq(name, val) == [k |-> "opt", name |-> name, has |-> TRUE, val |-> val]
WordTok(s) == [k |-> "word", name |-> "", has |-> FALSE, val |-> s]
TokenText(tok) ==
    IF tok.k = "word" THEN tok.val
    ELSE IF tok.has THEN "--" \o tok.name \o "=" \o tok.val
    ELSE "--" \o tok.name

OptionShapes ==
    {OptTok(n) : n \in FlagNames} \cup
    {OptEq(n, AttachedValue) : n \in AttachedNames}
\* the command lines
ScanTokens == {TokenText(tok) : tok \in OptionShapes} \cup Words
ScanArgvs ==
    UNION {[1..n -> ScanTokens] : n \in 0..MaxTokens}

\* _parse_optional splitting a word: an option and its explicit argument,
\* or a positional
ParseToken(s) ==
    OneOf({tok \in OptionShapes : TokenText(tok) = s}, WordTok(s))

\* str.startswith over the names of the options
NameEndings == {"", "ig", "-type", "_type"}
StartsWith(full, prefix) == \E e \in NameEndings : full = prefix \o e

\* the option strings of the pre-parser
Registered(mf) == ConfigFlags \cup ModeFlags(mf)
\* _parse_optional: the option string itself, else _get_option_tuples, the
\* registered option strings the word abbreviates
OptionTuples(name, mf) ==
    IF name \in Registered(mf) THEN {name}
    ELSE {o \in Registered(mf) : StartsWith(o, name)}

\* the dest of an option string
DestOf(o) == IF o \in ConfigFlags THEN "config" ELSE "mode"
\* the store action
Stored(ns, dest, val) ==
    IF dest = "config" THEN [ns EXCEPT !.config = StrV(val)]
    ELSE [ns EXCEPT !.mode = StrV(val)]
Extra(ns, s) == [ns EXCEPT !.extras = Append(@, s)]

\* ArgumentParser.error
Exit2 == ErrV("SystemExit", 2)

\* is the word after position i an argument an option can take
ArgumentFollows(tokens, i) ==
    i + 1 <= Len(tokens) /\ ParseToken(tokens[i + 1]).k = "word"

RECURSIVE consume(_, _, _, _)
\* consume_optional on the option at position i resolved to the option
\* strings ms
consume_optional(tokens, mf, i, ns, tok, ms) ==
    IF Cardinality(ms) > 1 THEN Exit2
    ELSE IF ms = {} THEN consume(tokens, mf, i + 1, Extra(ns, tokens[i]))
    ELSE IF tok.has
    THEN consume(tokens, mf, i + 1,
                 Stored(ns, DestOf(OneOf(ms, "")), tok.val))
    ELSE IF ArgumentFollows(tokens, i)
    THEN consume(tokens, mf, i + 2,
                 Stored(ns, DestOf(OneOf(ms, "")), tokens[i + 1]))
    ELSE Exit2
consume_token(tokens, mf, i, ns, tok) ==
    IF tok.k = "word" THEN consume(tokens, mf, i + 1, Extra(ns, tokens[i]))
    ELSE consume_optional(tokens, mf, i, ns, tok, OptionTuples(tok.name, mf))
consume(tokens, mf, i, ns) ==
    IF i > Len(tokens) THEN ns
    ELSE consume_token(tokens, mf, i, ns, ParseToken(tokens[i]))

\* pre_parser.parse_known_args(raw_argv): the namespace and the extras
EmptyNamespace == [t |-> "namespace", config |-> NullV, mode |-> NullV,
                   extras |-> <<>>]
parse_known_args(tokens, mf) == consume(tokens, mf, 1, EmptyNamespace)

InitPreScan ==
    /\ Idle
    /\ NoMerge
    /\ NoConvert
    /\ NoMaterialize
    /\ NoHeap
    /\ NoFold
    /\ scan_argv \in ScanArgvs
    /\ scan_mode \in {NullV, StrV("model_type")}
    /\ scanned = Pending

CallParseKnownArgs ==
    /\ scanned = Pending
    /\ scanned' = parse_known_args(scan_argv, scan_mode)
    /\ UNCHANGED <<callVars, mergeVars, convertVars, materializeVars,
                   heapVars, foldVars, scan_argv, scan_mode>>

NextPreScan == CallParseKnownArgs

SpecPreScan == InitPreScan /\ [][NextPreScan]_vars

(***************************************************************************)
(* What the claims speak of: the sources as the files hold them, the      *)
(* fields of the schema by their paths, the arguments of the command line. *)
(***************************************************************************)
ModePath == <<"model_type">>
LeafPaths == {<<"config">>, <<"simple_value">>, ModePath,
              <<"nested", "value">>, <<"nested", "name">>}

Defines(tree, path) ==
    /\ path[1] \in DOMAIN tree.kv
    /\ Len(path) = 2 =>
          /\ IsDict(tree.kv[path[1]])
          /\ path[2] \in DOMAIN tree.kv[path[1]].kv
ValueAt(tree, path) ==
    IF Len(path) = 1 THEN tree.kv[path[1]] ELSE tree.kv[path[1]].kv[path[2]]
FieldAt(obj, path) ==
    IF Len(path) = 1 THEN obj.f[path[1]] ELSE obj.f[path[1]].f[path[2]]

\* the tree a file holds; none for a missing, malformed or empty file
TreeOf(path) ==
    IF Exists(fs, path) /\ fs[path] # Malformed /\ IsDict(fs[path].doc)
    THEN fs[path].doc ELSE EmptyDict

ConfigArgs == SelectSeq(argv, LAMBDA a : a.flag = "config")
GivenUserPaths == [i \in 1..Len(ConfigArgs) |-> ConfigArgs[i].val]
LastUserPath == GivenUserPaths[Len(GivenUserPaths)]
ModeArgs == SelectSeq(argv, LAMBDA a : a.flag \in {"model-type", "model_type"})
ModeFlagGiven == Truthy(mode_field) /\ ModeArgs # <<>>
CliMode == StrV(ModeArgs[Len(ModeArgs)].val)
GivenOnCli(path) == \E i \in 1..Len(argv) : FlagPath(argv[i].flag) = path
NonDirective(path) ==
    /\ path # <<"config">>
    /\ Truthy(mode_field) => path # <<mode_field.s>>

UserTree == IF GivenUserPaths = <<>> THEN EmptyDict ELSE TreeOf(LastUserPath)
ModeTree ==
    IF Truthy(mode_field) /\ Truthy(authoritative_mode)
    THEN TreeOf(ModeDefaultYamlPath(authoritative_mode)) ELSE EmptyDict
BaseTree == TreeOf(DefaultYamlPath)
SchemaValue(path) == FieldAt(NewInstance(ConfigClass), path)

\* the value of the highest source that defines the field, as the field's
\* type takes it
LayeredValue(path) ==
    IF Defines(UserTree, path) THEN ValueAt(UserTree, path)
    ELSE IF Defines(ModeTree, path) THEN ValueAt(ModeTree, path)
    ELSE IF Defines(BaseTree, path) THEN ValueAt(BaseTree, path)
    ELSE SchemaValue(path)
Coerced(v, path) == convert_value_to_type(v, PathType(path))

\* the typed value of the last occurrence of a field's flag
CliValue(path) ==
    LET at == {i \in 1..Len(argv) : FlagPath(argv[i].flag) = path}
        text == argv[CHOOSE i \in at : \A j \in at : j <= i].val
    IN  IF PathType(path).k = "int"
        THEN IntV(CHOOSE i \in 0..MaxNum : TextOfInt(i) = text)
        ELSE StrV(text)

Built == pc \in {"defaults", "tyro_done", "returned"}
Left == pc \notin {"idle", "preparsed"}

C2_CliOverrides ==
    pc = "returned" =>
        \A path \in LeafPaths :
            IF GivenOnCli(path)
            THEN NonDirective(path) =>
                    FieldAt(final_config_obj, path) = CliValue(path)
            ELSE FieldAt(final_config_obj, path)
                    = FieldAt(default_instance_for_tyro, path)

C2_Witness ==
    /\ pc = "returned"
    /\ GivenOnCli(<<"nested", "value">>)
    /\ Defines(UserTree, <<"nested", "value">>)
    /\ Defines(BaseTree, <<"nested", "name">>)
    /\ final_config_obj.f.nested.f.value = IntV(8)
    /\ final_config_obj.f.nested.f.name = StrV("base")

(***************************************************************************)
(* C3: when the mode flag is given on the CLI, the mode field of the       *)
(* returned object equals the CLI-given mode value.                        *)
(***************************************************************************)
C3_CliModeOnObject ==
    (pc = "returned" /\ ModeFlagGiven) =>
        FieldAt(final_config_obj, ModePath) = CliMode

(***************************************************************************)
(* C4: with a mode field configured, the mode that selects the             *)
(* mode-default file is the first present of the CLI mode, the user        *)
(* tree's mode, the base-default tree's mode and the schema default, and   *)
(* default_<mode> is the one mode-default file looked for and loaded.      *)
(***************************************************************************)
ModeAsClaimed ==
    IF ModeFlagGiven THEN CliMode
    ELSE IF Defines(UserTree, ModePath) THEN ValueAt(UserTree, ModePath)
    ELSE IF Defines(BaseTree, ModePath) THEN ValueAt(BaseTree, ModePath)
    ELSE SchemaValue(ModePath)

C4_ModeSelection ==
    (Truthy(mode_field) /\ Built) =>
        /\ authoritative_mode = ModeAsClaimed
        /\ probed \cap {BasicYamlPath, AdvancedYamlPath}
              = {ModeDefaultYamlPath(ModeAsClaimed)}
        /\ mode_default_yaml_content
              = TreeOf(ModeDefaultYamlPath(ModeAsClaimed))

\* the user file's mode wins over another mode of the base default
C4_Witness ==
    /\ pc = "returned"
    /\ Truthy(mode_field)
    /\ ~ModeFlagGiven
    /\ Defines(UserTree, ModePath)
    /\ Defines(BaseTree, ModePath)
    /\ ValueAt(UserTree, ModePath) = StrV("basic")
    /\ ValueAt(BaseTree, ModePath) = StrV("advanced")
    /\ probed = {DefaultYamlPath, LastUserPath, BasicYamlPath}
    /\ Truthy(mode_default_yaml_content)

(***************************************************************************)
(* C5: a call whose user source path does not exist fails with a           *)
(* file-not-found error and returns no object.                             *)
(***************************************************************************)
C5_MissingUserFileRaises ==
    (Left /\ GivenUserPaths # <<>> /\ ~Exists(fs, LastUserPath)) =>
        /\ pc = "raised"
        /\ IsErr(raised)
        /\ raised.kind = "FileNotFoundError"
        /\ final_config_obj = NullV

(***************************************************************************)
(* C6: a call whose user source file exists and is malformed fails with a  *)
(* parse error that names the file, returns no object and never invokes    *)
(* the CLI application layer.                                              *)
(***************************************************************************)
C6_MalformedUserFileRaises ==
    (Left /\ GivenUserPaths # <<>> /\ fs[LastUserPath] = Malformed) =>
        /\ pc = "raised"
        /\ raised = ErrV("YAMLError", LastUserPath)
        /\ default_instance_for_tyro = NullV
        /\ final_config_obj = NullV
        /\ ~tyro_invoked

C6_Witness ==
    /\ pc = "raised"
    /\ GivenUserPaths # <<>>
    /\ fs[LastUserPath] = Malformed
    /\ raised = ErrV("YAMLError", U1)

(***************************************************************************)
(* C7: a missing base-default file, or a missing mode-default file of the  *)
(* resolved mode, is no error: the call goes as if the file held an empty  *)
(* tree.                                                                   *)
(***************************************************************************)
MissingDefaults ==
    {p \in {DefaultYamlPath} \cup
           (IF Truthy(mode_field) /\ Truthy(authoritative_mode)
            THEN {ModeDefaultYamlPath(authoritative_mode)} ELSE {}) :
        ~Exists(fs, p)}

AsIfEmpty(path) ==
    LET l == ResolveDefaults([fs EXCEPT ![path] = Yaml(EmptyDict)],
                             mode_field, user_config_path, cli_mode_value)
    IN  /\ final_default_dict_for_tyro = l.dict
        /\ default_instance_for_tyro = l.inst
        /\ ~tyro_invoked => raised = l.exc

C7_MissingDefaultsAreEmpty ==
    Left =>
        /\ \A p \in MissingDefaults : AsIfEmpty(p)
        /\ IsErr(raised) => raised.kind # "FileNotFoundError"

C7_Witness ==
    /\ pc = "returned"
    /\ Truthy(mode_field)
    /\ authoritative_mode = StrV("advanced")
    /\ MissingDefaults = {DefaultYamlPath, AdvancedYamlPath}
    /\ final_config_obj # NullV

(***************************************************************************)
(* C8: with several occurrences of the config flag, every occurrence is    *)
(* loaded and the sources apply left to right: a field holds the value of  *)
(* the last given user file that sets it.                                  *)
(***************************************************************************)
LastDefining(path) ==
    LET at == {i \in 1..Len(GivenUserPaths) :
                  Defines(TreeOf(GivenUserPaths[i]), path)}
    IN  CHOOSE i \in at : \A j \in at : j <= i

C8_EveryUserSourceApplied ==
    (/\ pc = "returned"
     /\ Len(GivenUserPaths) >= 2
     /\ \A i \in 1..Len(GivenUserPaths) :
           Exists(fs, GivenUserPaths[i]) /\ fs[GivenUserPaths[i]] # Malformed)
    =>
        /\ \A i \in 1..Len(GivenUserPaths) : GivenUserPaths[i] \in probed
        /\ \A path \in LeafPaths :
              (/\ ~GivenOnCli(path)
               /\ \E i \in 1..Len(GivenUserPaths) :
                     Defines(TreeOf(GivenUserPaths[i]), path))
              => FieldAt(final_config_obj, path)
                    = Coerced(ValueAt(TreeOf(GivenUserPaths[LastDefining(path)]),
                                      path), path)

(***************************************************************************)
(* C9: with a user source path given, the config field equals the last     *)
(* given path on the defaults object handed to the CLI layer and on the    *)
(* returned object, whatever the layers and the schema give that field.    *)
(***************************************************************************)
C9_ConfigFieldIsLastPath ==
    GivenUserPaths # <<>> =>
        /\ default_instance_for_tyro # NullV =>
              default_instance_for_tyro.f.config = PathV(LastUserPath)
        /\ pc = "returned" =>
              final_config_obj.f.config = PathV(LastUserPath)

\* two paths given, the last one's file setting the config field itself
C9_Witness ==
    /\ pc = "returned"
    /\ argv = <<Arg("config", U2), Arg("config", U1)>>
    /\ Defines(UserTree, <<"config">>)
    /\ ValueAt(UserTree, <<"config">>) = StrV("zz.yaml")
    /\ final_config_obj.f.config = PathV(U1)

(***************************************************************************)
(* C10: deep_merge(override, base) returns a mapping over the union of     *)
(* the two key sets; a key of base alone keeps base's value; a key of      *)
(* override takes override's value, unless both hold a mapping there, and  *)
(* then the value is the merge of the two mappings by the same rule.       *)
(***************************************************************************)
RECURSIVE MergedKeywise(_, _, _)
MergedKeywise(r, o, b) ==
    /\ IsDict(r)
    /\ DOMAIN r.kv = DOMAIN o.kv \cup DOMAIN b.kv
    /\ \A k \in DOMAIN r.kv :
          IF k \notin DOMAIN o.kv THEN r.kv[k] = b.kv[k]
          ELSE IF k \in DOMAIN b.kv /\ IsDict(o.kv[k]) /\ IsDict(b.kv[k])
               THEN MergedKeywise(r.kv[k], o.kv[k], b.kv[k])
               ELSE r.kv[k] = o.kv[k]

C10_DeepMergeKeywise ==
    merged # NullV => MergedKeywise(merged, override, base)

\* a key of base alone, and a key with a mapping on both sides whose
\* merge keeps a key of each side and lets override win the shared one
C10_Witness ==
    /\ merged # NullV
    /\ "a" \in DOMAIN base.kv /\ "a" \notin DOMAIN override.kv
    /\ override.kv = [b |-> DictV([a |-> IntV(1)])]
    /\ "b" \in DOMAIN base.kv
    /\ base.kv["b"] = DictV([a |-> IntV(2), b |-> IntV(2)])
    /\ merged.kv["b"] = DictV([a |-> IntV(1), b |-> IntV(2)])

(***************************************************************************)
(* C11: a sequence that the override holds at a key, at any depth, is the  *)
(* merged value at that key as it stands: it replaces whatever the base    *)
(* holds there, and no element of a base sequence is kept.                 *)
(***************************************************************************)
RECURSIVE SequencesAsIn(_, _)
SequencesAsIn(m, o) ==
    \A k \in DOMAIN o.kv :
        /\ k \in DOMAIN m.kv
        /\ o.kv[k].t = "list" => m.kv[k] = o.kv[k]
        /\ IsDict(o.kv[k]) => IsDict(m.kv[k]) /\ SequencesAsIn(m.kv[k], o.kv[k])

C11_SequencesReplaced ==
    merged # NullV /\ IsDict(override) /\ IsDict(base) =>
        IsDict(merged) /\ SequencesAsIn(merged, override)

\* the override's [2] has replaced the base's [1, 2], at the top and nested
C11_Witness ==
    /\ base = DictV([a |-> SeqV(<<IntV(1), IntV(2)>>),
                     b |-> DictV([a |-> SeqV(<<IntV(1), IntV(2)>>)])])
    /\ override = DictV([a |-> SeqV(<<IntV(2)>>),
                         b |-> DictV([a |-> SeqV(<<IntV(2)>>)])])
    /\ merged = override

(***************************************************************************)
(* C12: deep_merge succeeds on every pair of value trees, and where the    *)
(* two values are not both mappings the override is the result.            *)
(***************************************************************************)
C12_MergeTotal ==
    merged # NullV =>
        /\ ~IsErr(merged)
        /\ ~(IsDict(override) /\ IsDict(base)) => merged = override

(***************************************************************************)
(* C13: in the step that invokes the CLI layer, on the help path as on any *)
(* other, every layer's file has been looked for, the tree handed on is    *)
(* the schema defaults overlaid by the base default, then the mode         *)
(* default, then the user source, and the defaults object is the           *)
(* materialization of that tree (its config field apart, which holds the   *)
(* user path).                                                             *)
(***************************************************************************)
Overlay ==
    deep_merge(UserTree,
        deep_merge(ModeTree,
            deep_merge(BaseTree, dataclass_to_dict(NewInstance(ConfigClass)))))

LayerPaths ==
    {DefaultYamlPath}
        \cup (IF GivenUserPaths = <<>> THEN {} ELSE {LastUserPath})
        \cup (IF Truthy(mode_field) /\ Truthy(authoritative_mode)
              THEN {ModeDefaultYamlPath(authoritative_mode)} ELSE {})

DefaultsAreOverlay ==
    /\ probed = LayerPaths
    /\ final_default_dict_for_tyro = Overlay
    /\ default_instance_for_tyro # NullV
    /\ \A path \in LeafPaths \ {<<"config">>} :
          FieldAt(default_instance_for_tyro, path)
              = FieldAt(dict_to_dataclass(Overlay, ConfigClass), path)

C13_TyroGetsLayeredDefaults ==
    [][(~tyro_invoked /\ tyro_invoked') =>
          /\ DefaultsAreOverlay
          /\ default_instance_for_tyro' = default_instance_for_tyro
          /\ final_default_dict_for_tyro' = final_default_dict_for_tyro]_vars

\* --help after a user file: the CLI layer has exited, and the defaults it
\* was given hold the user's, the mode default's and the base's values
C13_Witness ==
    /\ tyro_invoked
    /\ pc = "raised"
    /\ raised = ErrV("SystemExit", 0)
    /\ argv = <<Arg("config", U1), Arg("help", "")>>
    /\ default_instance_for_tyro.f.simple_value = IntV(40)
    /\ default_instance_for_tyro.f.nested.f.value = IntV(31)
    /\ default_instance_for_tyro.f.nested.f.name = StrV("u1")
    /\ Defines(BaseTree, <<"nested", "name">>)
    /\ default_instance_for_tyro # NewInstance(ConfigClass)

(***************************************************************************)
(* C14: a call that has ended, after whatever calls came before it on the  *)
(* same manager, has returned or raised what its own arguments give over   *)
(* the files and the manager's configuration; a call with the arguments of *)
(* the call before it ends as that call did; no call changes the files or  *)
(* the manager.                                                            *)
(***************************************************************************)
\* what parse_args(args) gives on a manager that was never called
ResultOf(args) ==
    LET ucp == PreParsedConfigPath(args)
        l == ResolveDefaults(fs, mode_field, ucp,
                             PreParsedMode(args, mode_field))
    IN  IF IsErr(l.exc) THEN [obj |-> NullV, raised |-> l.exc]
        ELSE LET r == TyroCli(RemainingArgv(args, mode_field), l.inst)
             IN  IF IsErr(r) THEN [obj |-> NullV, raised |-> r]
                 ELSE [obj |-> StampConfigPath(r, ucp), raised |-> NullV]

C14_CallsIndependent ==
    [][/\ fs' = fs
       /\ mode_field' = mode_field
       /\ pc' \in {"returned", "raised"} =>
             /\ final_config_obj' = ResultOf(argv).obj
             /\ raised' = ResultOf(argv).raised
             /\ (prev # NullV /\ prev.argv = argv) =>
                    /\ final_config_obj' = prev.obj
                    /\ raised' = prev.raised]_vars

\* a call with the second user file after a call with the first, which
\* had selected the other mode: nothing of the first call is left
C14_Witness ==
    /\ pc = "returned"
    /\ prev # NullV
    /\ prev.argv = <<Arg("config", U1)>>
    /\ prev.obj # NullV
    /\ prev.obj.f.model_type = StrV("advanced")
    /\ prev.obj.f.simple_value = IntV(40)
    /\ argv = <<Arg("config", U2)>>
    /\ final_config_obj.f.model_type = StrV("basic")
    /\ final_config_obj.f.simple_value = IntV(20)
    /\ final_config_obj.f.nested.f.value = IntV(51)

(***************************************************************************)
(* C15: on a manager without a mode field no call looks for a mode-default *)
(* file or loads one, and the tree it builds is the schema defaults        *)
(* overlaid by the base default and the user source alone, whatever the    *)
(* command line, the files and their mode values are.                      *)
(***************************************************************************)
ModeDefaultPaths == {BasicYamlPath, AdvancedYamlPath}

C15_NoModeFieldNoModeDefault ==
    ~Truthy(mode_field) =>
        /\ probed \cap ModeDefaultPaths = {}
        /\ authoritative_mode = NullV
        /\ mode_default_yaml_content = NullV
        /\ Built =>
              final_default_dict_for_tyro =
                  deep_merge(UserTree,
                      deep_merge(BaseTree,
                          dataclass_to_dict(NewInstance(ConfigClass))))

\* the user file and the command line both name the advanced mode, and
\* default_advanced.yaml is there with a nested value: it is not applied
C15_Witness ==
    /\ mode_field = NullV
    /\ pc = "returned"
    /\ argv = <<Arg("config", U1), Arg("model-type", "advanced")>>
    /\ Defines(UserTree, ModePath)
    /\ ValueAt(UserTree, ModePath) = StrV("advanced")
    /\ Defines(TreeOf(AdvancedYamlPath), <<"nested", "value">>)
    /\ Defines(TreeOf(BasicYamlPath), <<"nested", "value">>)
    /\ final_config_obj.f.model_type = StrV("advanced")
    /\ final_config_obj.f.nested.f.value = IntV(42)

(***************************************************************************)
(* C16: when the merged tree holds, at a field of the schema, a value that *)
(* the field's type does not take, the call raises the conversion's error, *)
(* leaves no defaults object and no returned object behind, and has not    *)
(* invoked the CLI layer.                                                  *)
(***************************************************************************)
IllTyped(dict) ==
    \/ \E path \in LeafPaths :
          /\ Defines(dict, path)
          /\ IsErr(convert_value_to_type(ValueAt(dict, path), PathType(path)))
    \/ /\ "nested" \in DOMAIN dict.kv
       /\ dict.kv["nested"].t \notin {"dict", "null"}

C16_CoercionFailureRaises ==
    (Left /\ final_default_dict_for_tyro = Overlay /\ IllTyped(Overlay)) =>
        /\ pc = "raised"
        /\ IsErr(raised)
        /\ raised.kind \in {"ValueError", "TypeError"}
        /\ default_instance_for_tyro = NullV
        /\ final_config_obj = NullV
        /\ ~tyro_invoked

\* the user file gives simple_value the text abc, and a good nested value
C16_Witness ==
    /\ pc = "raised"
    /\ argv = <<Arg("config", U1)>>
    /\ Defines(UserTree, <<"simple_value">>)
    /\ Defines(UserTree, <<"nested", "value">>)
    /\ ValueAt(UserTree, <<"simple_value">>) = StrV("abc")
    /\ ValueAt(UserTree, <<"nested", "value">>) = IntV(41)
    /\ raised = ErrV("ValueError", StrV("abc"))
    /\ final_config_obj = NullV
    /\ ~tyro_invoked

(***************************************************************************)
(* C17: dict_to_dataclass gives a field that the tree lacks the default    *)
(* the schema declares for it, a field that the tree holds the coerced     *)
(* value, and a nested-schema field the object made of its sub-tree, in    *)
(* which the keys the sub-tree lacks have the nested schema's defaults.    *)
(***************************************************************************)
\* the defaults as the dataclasses declare them
DeclaredDefault(cls, f) ==
    CASE cls = "NestedConfig" /\ f = "value" -> IntV(42)
      [] cls = "NestedConfig" /\ f = "name" -> StrV("nested")
      [] cls = "TestConfig" /\ f = "config" -> NullV
      [] cls = "TestConfig" /\ f = "simple_value" -> IntV(1)
      [] cls = "TestConfig" /\ f = "model_type" -> StrV("basic")
      [] cls = "TestConfig" /\ f = "nested" ->
           ObjV("NestedConfig", [value |-> IntV(42), name |-> StrV("nested")])
      [] cls = "ListConfig" /\ f = "items" ->
           SeqV(<<ObjV("NestedConfig",
                       [value |-> IntV(42), name |-> StrV("nested")])>>)

RECURSIVE MaterializedFrom(_, _, _)
MaterializedFrom(obj, dict, cls) ==
    /\ obj.t = "obj"
    /\ obj.cls = cls
    /\ DOMAIN obj.f = DOMAIN TypeHints(cls)
    /\ \A f \in DOMAIN TypeHints(cls) :
          IF f \notin DOMAIN dict.kv
          THEN obj.f[f] = DeclaredDefault(cls, f)
          ELSE IF TypeHints(cls)[f].k = "dataclass"
          THEN MaterializedFrom(obj.f[f], dict.kv[f], TypeHints(cls)[f].cls)
          ELSE TypeHints(cls)[f].k \in {"int", "str"} =>
                  obj.f[f] = convert_value_to_type(dict.kv[f], TypeHints(cls)[f])

C17_AbsentFieldsGetDefaults ==
    materialized # Pending => MaterializedFrom(materialized, mat_tree, mat_class)

\* a tree with simple_value and nested.name alone
C17_Witness ==
    /\ mat_class = "TestConfig"
    /\ mat_tree = DictV([simple_value |-> StrV("6"),
                         nested |-> DictV([name |-> IntV(7)])])
    /\ materialized =
          ObjV("TestConfig",
               [config |-> NullV, simple_value |-> IntV(6),
                model_type |-> StrV("basic"),
                nested |-> ObjV("NestedConfig",
                                [value |-> IntV(42), name |-> StrV("7")])])

(***************************************************************************)
(* C18: for the field items of ListConfig, declared List[NestedConfig],    *)
(* every element of the tree's sequence is materialized as a NestedConfig  *)
(* object, in the order and the number of the sequence.                    *)
(***************************************************************************)
C18_ListOfSchemasTyped ==
    (/\ materialized # Pending
     /\ mat_class = "ListConfig"
     /\ "items" \in DOMAIN mat_tree.kv
     /\ mat_tree.kv["items"].t = "list") =>
        /\ materialized.t = "obj"
        /\ materialized.f["items"].t = "list"
        /\ Len(materialized.f["items"].q) = Len(mat_tree.kv["items"].q)
        /\ \A i \in DOMAIN mat_tree.kv["items"].q :
              /\ materialized.f["items"].q[i].t = "obj"
              /\ materialized.f["items"].q[i] =
                    dict_to_dataclass(mat_tree.kv["items"].q[i], "NestedConfig")

(***************************************************************************)
(* C19: against bool, a text is true exactly when, letter case apart, it   *)
(* is one of true, yes, 1, y, and false otherwise; an input that is no    *)
(* text (and not None) has its Python truth value.                         *)
(***************************************************************************)
TrueTexts ==
    {"true", "TRUE", "True", "tRuE", "yes", "YES", "Yes", "y", "Y", "1"}

C19_BoolCoercion ==
    (converted # Pending /\ conv_type = TBool /\ conv_value # NullV) =>
        IF conv_value.t = "str"
        THEN converted = BoolV(conv_value.s \in TrueTexts)
        ELSE converted = BoolV(Truthy(conv_value))

C19_Witness ==
    /\ conv_type = TBool
    /\ conv_value = StrV("YES")
    /\ converted = BoolV(TRUE)
    /\ convert_value_to_type(StrV("no"), TBool) = BoolV(FALSE)
    /\ convert_value_to_type(StrV("on"), TBool) = BoolV(FALSE)
    /\ convert_value_to_type(IntV(0), TBool) = BoolV(FALSE)

(***************************************************************************)
(* C20: against a list type, a sequence is coerced element by element in   *)
(* its order and length; a text in bracketed literal form and the same     *)
(* items between commas, blanks or not around them, coerce to the same     *)
(* list; an input that is neither a text nor a sequence fails, and so does *)
(* a text with an item that the item type does not take.                   *)
(***************************************************************************)
SameOutcome(x, y) == (IsErr(x) /\ IsErr(y)) \/ x = y

\* the pieces that are Python literals, and a literal written bare
LiteralSeqs == {ws \in PieceSeqs : \A i \in DOMAIN ws : ws[i] # "a"}
Plain(ws) == [i \in DOMAIN ws |-> IF ws[i] = "'a'" THEN "a" ELSE ws[i]]
IsDecimal(w) == \E i \in 0..MaxNum : w = TextOfInt(i)

ElementByElement ==
    conv_value.t = "list" =>
        LET cs == [i \in DOMAIN conv_value.q |->
                      convert_value_to_type(conv_value.q[i], conv_type.of)]
        IN  IF \E i \in DOMAIN cs : IsErr(cs[i]) THEN IsErr(converted)
            ELSE /\ converted.t = "list"
                 /\ Len(converted.q) = Len(conv_value.q)
                 /\ \A i \in DOMAIN cs : converted.q[i] = cs[i]

NeitherTextNorSequenceFails ==
    conv_value.t \notin {"str", "list"} => IsErr(converted)

UnparsableTextFails ==
    (/\ conv_value.t = "str"
     /\ conv_type.of = TInt
     /\ \E ws \in PieceSeqs :
           /\ conv_value.s \in {BracketText(ws), CommaText(ws), SpacedText(ws)}
           /\ \E i \in DOMAIN ws : ~IsDecimal(ws[i])) => IsErr(converted)

BothFormsAgree(item_types, items) ==
    \A ws \in items :
        (conv_type.of \in item_types /\ conv_value = StrV(BracketText(ws))) =>
            /\ SameOutcome(converted,
                   convert_value_to_type(StrV(CommaText(Plain(ws))), conv_type))
            /\ SameOutcome(converted,
                   convert_value_to_type(StrV(SpacedText(Plain(ws))), conv_type))

SameResult(x, y) == (IsErr(x) /\ IsErr(y) /\ x.kind = y.kind) \/ x = y

C21_NullAndOptional ==
    converted # Pending =>
        /\ (conv_value = NullV => converted = NullV)
        /\ (conv_value # NullV /\ conv_type.k = "optional") =>
               SameResult(converted,
                          convert_value_to_type(conv_value, conv_type.of))

(***************************************************************************)
(* C22: against a Union that is not an Optional, coercion gives the result *)
(* of the first argument, in declared order, against which coercion        *)
(* succeeds; when it fails against every argument, it fails with an error  *)
(* that names all of them.                                                 *)
(***************************************************************************)
C22_UnionFirstSuccess ==
    (converted # Pending /\ conv_type.k = "union" /\ conv_value # NullV) =>
        LET rs == [i \in DOMAIN conv_type.args |->
                      convert_value_to_type(conv_value, conv_type.args[i])]
            succeeded == {i \in DOMAIN rs : ~IsErr(rs[i])}
        IN  IF succeeded = {}
            THEN /\ IsErr(converted)
                 /\ converted.kind = "ValueError"
                 /\ converted.about = [value |-> conv_value,
                                       args |-> conv_type.args]
            ELSE converted =
                     rs[CHOOSE i \in succeeded : \A j \in succeeded : i <= j]

(***************************************************************************)
(* C23: against int, a text is read as a number and cut toward zero to its *)
(* whole part ("3.0" gives 3, "-2.7" gives -2), a text that is no number   *)
(* fails; a value that is no text is cast directly: an integer stays, a    *)
(* boolean gives 0 or 1, a float is cut toward zero, anything else fails.  *)
(***************************************************************************)
\* the numbers, in tenths, that a text writes: "12", "12.0", "-2.7"
TenthsRange == (0 - (10 * MaxNum + 9))..(10 * MaxNum + 9)
TenthsWritten(s) ==
    {n \in TenthsRange :
        \/ s = TextOfFloat(n)
        \/ n % 10 = 0 /\ n >= 0 /\ s = TextOfInt(n \div 10)
        \/ n % 10 = 0 /\ n <= 0 /\ s = "-" \o TextOfInt((0 - n) \div 10)}

\* q is the whole part of n tenths, toward zero
WholePartOf(q, n) ==
    IF n >= 0 THEN 10 * q <= n /\ n < 10 * q + 10
    ELSE 10 * q >= n /\ n > 10 * q - 10

C23_IntCoercion ==
    (converted # Pending /\ conv_type = TInt /\ conv_value # NullV) =>
        CASE conv_value.t = "str" ->
               IF TenthsWritten(conv_value.s) = {} THEN IsErr(converted)
               ELSE /\ converted.t = "int"
                    /\ \A n \in TenthsWritten(conv_value.s) :
                          WholePartOf(converted.i, n)
          [] conv_value.t = "int" -> converted = conv_value
          [] conv_value.t = "bool" ->
               converted = IntV(IF conv_value.b THEN 1 ELSE 0)
          [] conv_value.t = "float" ->
               converted.t = "int" /\ WholePartOf(converted.i, conv_value.m)
          [] OTHER -> IsErr(converted)

C23_Witness ==
    /\ conv_type = TInt
    /\ conv_value = StrV("-2.7")
    /\ converted = IntV(-2)
    /\ convert_value_to_type(StrV("3.0"), TInt) = IntV(3)
    /\ convert_value_to_type(FloatV(27), TInt) = IntV(2)
    /\ IsErr(convert_value_to_type(StrV("abc"), TInt))
(***************************************************************************)
(* C24: the pre-scan of the command line                                   *)
(***************************************************************************)
\* a word that is the config flag or the mode flag as the manager spells
\* them, bare or with its value attached
IsDirectiveToken(s, mf) ==
    ParseToken(s).k = "opt" /\ ParseToken(s).name \in Registered(mf)
TakesNextWord(s, mf) == IsDirectiveToken(s, mf) /\ ~ParseToken(s).has

\* every bare directive flag of the command line has a value behind it
DirectivesHaveValues(tokens, mf) ==
    \A i \in 1..Len(tokens) :
        TakesNextWord(tokens[i], mf) => ArgumentFollows(tokens, i)

RECURSIVE WithoutDirectives(_, _, _)
\* the command line without the directive flags and their values
WithoutDirectives(tokens, mf, i) ==
    IF i > Len(tokens) THEN <<>>
    ELSE IF TakesNextWord(tokens[i], mf)
    THEN WithoutDirectives(tokens, mf, i + 2)
    ELSE IF IsDirectiveToken(tokens[i], mf)
    THEN WithoutDirectives(tokens, mf, i + 1)
    ELSE <<tokens[i]>> \o WithoutDirectives(tokens, mf, i + 1)

\* C24: on a command line whose directive flags all carry a value the
\* pre-scan does not fail, and what it hands on is the command line without
\* the config flag, the mode flag and their values: every other word,
\* unchanged and in its place.
C24_PreScanConsumesOnlyDirectives ==
    (scanned # Pending /\ DirectivesHaveValues(scan_argv, scan_mode)) =>
        /\ ~IsErr(scanned)
        /\ scanned.extras = WithoutDirectives(scan_argv, scan_mode, 1)

(***************************************************************************)
(* C25: whenever a mode-default file was merged, the mode field of the     *)
(* returned object equals the mode value that selected the file.           *)
(***************************************************************************)
ModeDefaultMerged == Truthy(mode_field) /\ Truthy(mode_default_yaml_content)

C25_ModeFieldIsSelectingMode ==
    (pc = "returned" /\ ModeDefaultMerged) =>
        FieldAt(final_config_obj, ModePath) = authoritative_mode

(***************************************************************************)
(* C26: deep_merge is associative over mappings A, B, C:                   *)
(* deep_merge(C, deep_merge(B, A)) = deep_merge(deep_merge(C, B), A).      *)
(***************************************************************************)
BothGroupingsDone == merged # NullV /\ regrouped # NullV

RECURSIVE MiddleHidesMapping(_, _, _)
\* some path holds a mapping in the upper and in the lower tree and a value
\* that is no mapping in the middle one
MiddleHidesMapping(c, b, a) ==
    \E k \in DOMAIN c.kv \cap DOMAIN b.kv \cap DOMAIN a.kv :
        /\ IsDict(c.kv[k])
        /\ IsDict(a.kv[k])
        /\ ~IsDict(b.kv[k]) \/ MiddleHidesMapping(c.kv[k], b.kv[k], a.kv[k])

\* C26 as stated: the two groupings of three mappings give the same tree.
C26_DeepMergeAssociative ==
    BothGroupingsDone => merged = regrouped

\* C26 amended: the two groupings give the same tree unless some path holds
\* a mapping in the upper and the lower tree and a non-mapping in the middle
\* one.
C26_AssociativeOnAgreeingShapes ==
    (BothGroupingsDone /\ ~MiddleHidesMapping(override, between, base)) =>
        merged = regrouped

\* nested mappings of all three trees merged key-wise, the same either way
C26_Witness ==
    /\ BothGroupingsDone
    /\ ~MiddleHidesMapping(override, between, base)
    /\ override = DictV([a |-> DictV([a |-> IntV(2)])])
    /\ between = DictV([a |-> DictV([b |-> IntV(1)])])
    /\ base = DictV([a |-> DictV([a |-> IntV(1), b |-> IntV(2)])])
    /\ merged = DictV([a |-> DictV([a |-> IntV(2), b |-> IntV(1)])])
    /\ merged = regrouped

(***************************************************************************)
(* C27: keys of a source tree that name no field of the schema, at the top *)
(* or inside a nested schema, never affect the resolved object and never   *)
(* cause an error.                                                         *)
(***************************************************************************)
FieldsOfClass(cls) == {FieldOrder(cls)[i] : i \in 1..Len(FieldOrder(cls))}

RECURSIVE WithoutUnknownKeys(_, _)
\* a tree without the keys that name no field of the class, at every depth
WithoutUnknownKeys(tree, cls) ==
    IF ~IsDict(tree) THEN tree
    ELSE DictV([k \in DOMAIN tree.kv \cap FieldsOfClass(cls) |->
                  IF TypeHints(cls)[k].k = "dataclass"
                  THEN WithoutUnknownKeys(tree.kv[k], TypeHints(cls)[k].cls)
                  ELSE tree.kv[k]])

\* the files of the call with the unknown keys taken out of them
FilesWithoutUnknownKeys ==
    [p \in DOMAIN fs |->
        IF fs[p].kind = "yaml"
        THEN Yaml(WithoutUnknownKeys(fs[p].doc, ConfigClass))
        ELSE fs[p]]

HoldsUnknownKeys == FilesWithoutUnknownKeys # fs

\* the same call over the files without the unknown keys
DefaultsWithoutUnknownKeys ==
    ResolveDefaults(FilesWithoutUnknownKeys, mode_field, user_config_path,
                    cli_mode_value)
ReturnedWithoutUnknownKeys ==
    StampConfigPath(TyroCli(remaining_argv_for_tyro,
                            DefaultsWithoutUnknownKeys.inst),
                    user_config_path)

C28_ArgumentsUnchanged ==
    \A i \in 1..Len(h_layers) : tree_at(heap, h_roots[i]) = h_layers[i]

\* the dicts reachable from the dict at an address
RECURSIVE DictsFrom(_, _)
DictsFrom(h, a) ==
    {a} \cup UNION {DictsFrom(h, h[a][k].a) :
                       k \in {j \in DOMAIN h[a] : IsRef(h[a][j])}}

\* all sources merged: the nested mapping of default.yaml, which the
\* accumulated dict shared with it after the first merge, merged key-wise
\* with the one of the mode default into a dict of its own, and every
\* loaded tree holding what it held
C28_Witness ==
    /\ h_done = 4
    /\ h_layers[2] =
           DictV([nested |-> DictV([value |-> DictV([value |-> IntV(2)])])])
    /\ h_layers[3] =
           DictV([nested |-> DictV([value |-> DictV([name |-> IntV(3)])])])
    /\ h_layers[4] = DictV([simple_value |-> IntV(1)])
    /\ tree_at(heap, h_acc).kv.nested.kv.value =
           DictV([value |-> IntV(2), name |-> IntV(3)])
    /\ DictsFrom(heap, h_acc) \cap DictsFrom(heap, h_roots[2]) = {}
    /\ \A i \in 1..4 : tree_at(heap, h_roots[i]) = h_layers[i]

====
